---- MODULE Spec2Model ----
(***************************************************************************)
(* Record-oriented file I/O of fsmod: the layered writer/reader stacks     *)
(* (raw stream, bufio, gzip, codec framing) for the JSON-lines, the        *)
(* length-prefixed protobuf and the CSV formats, and Split / Join.         *)
(*                                                                         *)
(* Bytes are naturals below 128; a file is a sequence of bytes.  Errors    *)
(* are strings, Nil being Go's nil error.                                  *)
(***************************************************************************)
EXTENDS Integers, Sequences, FiniteSets, TLC

VARIABLES
    cfg,     \* the scenario: format, gzip flags, records, limit, buffer size, injected faults
    pc,      \* position of the running scenario
    w,       \* the writer under test (SpecWrite), or Nil
    wlog,    \* what the caller of the writer observed: records accepted, Close's result
    rd,      \* the reader under test (SpecWrite, SpecRead), or Nil
    rlog,    \* the results of the read calls made so far, oldest first
    files,   \* the file system of the Split/Join scenario: path -> bytes or NoFile
    sp,      \* the frame of the running Split call
    jn,      \* the frame of the running Join call
    csv      \* the CSV objects of the caller: header cursor, its current record, schema

vars == <<cfg, pc, w, wlog, rd, rlog, files, sp, jn, csv>>

----------------------------------------------------------------------------
(* Bounds of the model *)

\* the largest number of records a scenario writes
MaxRecs == 3
\* record payloads are drawn from 1..MaxVal
MaxVal == 2
\* the small buffer size set through SetBufferSize
SmallBuf == 3
\* the largest quota (bytes the raw sink accepts before it fails)
MaxQuota == 2
MaxStream == 3
MaxProtoStream == 6
MaxReads == 4
MaxSplitRecs == 3
MaxLimit == 2

----------------------------------------------------------------------------
(* Errors and bytes *)

Nil == "nil"
EOF == "EOF"
ErrUnexpectedEOF == "ErrUnexpectedEOF"
ErrShortWrite == "ErrShortWrite"
ErrClosed == "ErrClosed"
ENOSPC == "ENOSPC"
EIO == "EIO"

NL == 10

DefaultBufferSize == 64 * 1024

\* bufferSize of the file service: the default, or what SetBufferSize stored
BufferSizes == {SmallBuf, DefaultBufferSize}

NoQuota == 0 - 1

Take(s, n) == SubSeq(s, 1, IF n < Len(s) THEN n ELSE Len(s))
Drop(s, n) == SubSeq(s, n + 1, Len(s))

RECURSIVE SumSeq(_)
SumSeq(s) == IF s = <<>> THEN 0 ELSE s[1] + SumSeq(Tail(s))

RECURSIVE SeqsUpTo(_, _)
\* all sequences over S of length at most n
SeqsUpTo(S, n) ==
    IF n = 0 THEN {<<>>}
    ELSE LET shorter == SeqsUpTo(S, n - 1)
         IN shorter \cup {Append(s, x) : s \in {t \in shorter : Len(t) = n - 1}, x \in S}

----------------------------------------------------------------------------
(* The raw sink: an os.File (file writers), or the caller's io.Writer      *)
(* (stream writers), or the bytes.Buffer of protoBufWriter.                *)

WriterClasses ==
    {"jsonStream", "jsonFile", "protoStream", "protoBuf", "protoFile", "csvStream", "csvFile"}

IsFileClass(cls) == cls \in {"jsonFile", "protoFile", "csvFile"}

\* the classes whose stack starts with a bufio.Writer fw over the sink
HasFw(cls) == cls \in {"jsonStream", "jsonFile", "protoStream", "protoFile", "csvFile"}

IsCsvClass(cls) == cls \in {"csvStream", "csvFile"}

Logged(s, name) == [s EXCEPT !.log = Append(@, [op |-> name, err |-> s.ret])]

\* fd.Write(p): a closed descriptor rejects the write; a sink with a quota takes
\* the bytes that fit and fails with ENOSPC (a short write)
FdWrite(s, p) ==
    IF ~s.fdOpen THEN [s EXCEPT !.ret = ErrClosed, !.nw = 0]
    ELSE IF s.quota = NoQuota \/ Len(s.fd) + Len(p) <= s.quota
         THEN [s EXCEPT !.fd = @ \o p, !.ret = Nil, !.nw = Len(p)]
    ELSE [s EXCEPT !.fd = @ \o Take(p, s.quota - Len(s.fd)), !.ret = ENOSPC,
                   !.nw = s.quota - Len(s.fd)]

\* fd.Close(): the descriptor is released whatever Close returns
FdClose(s) ==
    Logged([s EXCEPT !.fdOpen = FALSE,
                     !.ret = IF ~s.fdOpen THEN ErrClosed
                             ELSE IF s.closeBad THEN EIO ELSE Nil],
           "fd.Close")

----------------------------------------------------------------------------
(* bufio.Writer over a downstream writer Down: buffer field f, sticky      *)
(* error field e, capacity size.                                           *)

\* the end of Flush: d is the writer after the downstream Write of buf
BufFlushed(d, buf, f, e) ==
    IF d.ret # Nil THEN [d EXCEPT ![f] = Drop(buf, d.nw), ![e] = d.ret]
    ELSE IF d.nw < Len(buf)
         THEN [d EXCEPT ![f] = Drop(buf, d.nw), ![e] = ErrShortWrite, !.ret = ErrShortWrite]
    ELSE [d EXCEPT ![f] = <<>>]

\* bufio.Writer.Flush
BufFlush(s, f, e, Down(_, _)) ==
    IF s[e] # Nil THEN [s EXCEPT !.ret = s[e]]
    ELSE IF Len(s[f]) = 0 THEN [s EXCEPT !.ret = Nil]
    ELSE BufFlushed(Down(s, s[f]), s[f], f, e)

\* a write that bypasses the buffer: d is the writer after the downstream
\* Write, taken bytes of p went into the buffer before
BufDirect(d, e, taken) == [d EXCEPT ![e] = d.ret, !.nw = taken + d.nw]

\* the rest of Write once the buffer was filled up and flushed
BufRest(flushed, rest, taken, f, e, size, Down(_, _)) ==
    IF flushed[e] # Nil THEN [flushed EXCEPT !.ret = flushed[e], !.nw = taken]
    ELSE IF Len(rest) > size THEN BufDirect(Down(flushed, rest), e, taken)
    ELSE [flushed EXCEPT ![f] = rest, !.ret = Nil, !.nw = taken + Len(rest)]

\* bufio.Writer.Write(p): a write that does not fit goes straight down when
\* the buffer is empty, else fills the buffer, flushes it and goes on; nw is
\* the number of bytes of p the writer took
BufWrite(s, p, f, e, size, Down(_, _)) ==
    IF s[e] # Nil THEN [s EXCEPT !.ret = s[e], !.nw = 0]
    ELSE IF Len(p) <= size - Len(s[f])
         THEN [s EXCEPT ![f] = @ \o p, !.ret = Nil, !.nw = Len(p)]
    ELSE IF Len(s[f]) = 0 THEN BufDirect(Down(s, p), e, 0)
    ELSE BufRest(BufFlush([s EXCEPT ![f] = @ \o Take(p, size - Len(s[f]))], f, e, Down),
                 Drop(p, size - Len(s[f])), size - Len(s[f]), f, e, size, Down)

\* what the layer above fw writes to: fw when the class has one, else the sink
FwWrite(s, p) ==
    IF HasFw(s.cls) THEN BufWrite(s, p, "fw", "fwErr", s.size, FdWrite)
    ELSE FdWrite(s, p)

\* w.fw.Flush()
FwFlush(s) == Logged(BufFlush(s, "fw", "fwErr", FdWrite), "fw.Flush")

----------------------------------------------------------------------------
(* gzip.Writer over fw (or over the sink).  The codec is a collaborator:   *)
(* it is modelled by a reversible coding with a header, a sync marker per  *)
(* Flush, an end-of-stream marker and a trailer (checksum, size).          *)

GzMagic == 31
GzSync == 0
GzFinal == 3
GzMask == 128

GzCode(p) == [i \in 1..Len(p) |-> p[i] + GzMask]
GzTrailer(g) == <<g.crc, g.n % 256>>

\* the header was written (d is the writer after that Write)
GzHeaderDone(d) == [d EXCEPT !.gzw.hdr = TRUE, !.gzw.err = d.ret]

\* the compressor takes p (h is the writer once the header is out)
GzTake(h, p) ==
    IF h.gzw.err # Nil THEN [h EXCEPT !.ret = h.gzw.err, !.nw = 0]
    ELSE [h EXCEPT !.gzw.pend = @ \o p,
                   !.gzw.n = @ + Len(p),
                   !.gzw.crc = (@ + SumSeq(p)) % 256,
                   !.ret = Nil, !.nw = Len(p)]

\* gzip.Writer.Write(p): the header goes out with the first call; the
\* compressor keeps the data until Flush or Close
GzWrite(s, p) ==
    IF s.gzw.err # Nil THEN [s EXCEPT !.ret = s.gzw.err, !.nw = 0]
    ELSE IF s.gzw.hdr THEN GzTake(s, p)
    ELSE GzTake(GzHeaderDone(FwWrite(s, <<GzMagic>>)), p)

\* the compressor's output went down (d is the writer after that Write)
GzEmitted(d) == [d EXCEPT !.gzw.pend = <<>>, !.gzw.err = d.ret]

\* the compressor emits what it holds, then the marker
GzEmit(h, marker) ==
    IF h.gzw.err # Nil THEN [h EXCEPT !.ret = h.gzw.err]
    ELSE GzEmitted(FwWrite(h, Append(GzCode(h.gzw.pend), marker)))

\* gzip.Writer.Flush()
GzFlush(s) ==
    Logged(IF s.gzw.err # Nil THEN [s EXCEPT !.ret = s.gzw.err]
           ELSE IF s.gzw.closed THEN [s EXCEPT !.ret = Nil]
           ELSE IF s.gzw.hdr THEN GzEmit(s, GzSync)
           ELSE GzEmit(GzWrite(s, <<>>), GzSync),
           "gzw.Flush")

\* the trailer was written (t is the writer after that Write)
GzTrailerDone(t) == [t EXCEPT !.gzw.err = t.ret]

\* the trailer follows the end marker (e is the writer after the marker)
GzFinish(e) ==
    IF e.gzw.err # Nil THEN e ELSE GzTrailerDone(FwWrite(e, GzTrailer(e.gzw)))

\* gzip.Writer.Close(): the rest of the data, the end marker, then the trailer
GzClose(s) ==
    Logged(IF s.gzw.err # Nil THEN [s EXCEPT !.ret = s.gzw.err]
           ELSE IF s.gzw.closed THEN [s EXCEPT !.ret = Nil]
           ELSE IF s.gzw.hdr THEN GzFinish(GzEmit([s EXCEPT !.gzw.closed = TRUE], GzFinal))
           ELSE GzFinish(GzEmit(GzWrite([s EXCEPT !.gzw.closed = TRUE], <<>>), GzFinal)),
           "gzw.Close")

----------------------------------------------------------------------------
(* The codec side of the stack: bw over gzw (JSON, proto with gzip), or    *)
(* the csv.Writer's own bufio.Writer.                                      *)

CsvBufSize == 4096

\* bufio.NewWriterSize returns its argument when that is a bufio.Writer that
\* is large enough: the csv.Writer of a plain csvFileWriter then writes into fw
CsvSharesFw(s) == s.cls = "csvFile" /\ ~s.gz /\ s.size >= CsvBufSize

CsvDown(s, p) == IF s.gz THEN GzWrite(s, p) ELSE FwWrite(s, p)

\* w.w.Write(p) of the JSON and the proto writers, the csv.Writer's buffered
\* write of the CSV writers
TopWrite(s, p) ==
    IF IsCsvClass(s.cls) /\ ~CsvSharesFw(s)
    THEN BufWrite(s, p, "csvw", "csvwErr", CsvBufSize, CsvDown)
    ELSE IF ~IsCsvClass(s.cls) /\ s.gz THEN BufWrite(s, p, "bw", "bwErr", s.size, GzWrite)
    ELSE FwWrite(s, p)

\* w.bw.Flush()
BwFlush(s) == Logged(BufFlush(s, "bw", "bwErr", GzWrite), "bw.Flush")

\* w.csvw.Flush()
CsvwFlush(s) ==
    Logged(IF CsvSharesFw(s) THEN BufFlush(s, "fw", "fwErr", FdWrite)
           ELSE BufFlush(s, "csvw", "csvwErr", CsvDown),
           "csvw.Flush")

\* the writer a constructor returns (NewJsonStream, NewJsonFile, NewProtoStream,
\* NewProtoBuf, NewProtoFile, NewCsvStream, NewCsvFile)
NewWriter(cls, gz, size, quota, closeBad) ==
    [cls |-> cls, gz |-> gz, size |-> size, procs |-> Nil,
     bw |-> <<>>, bwErr |-> Nil,
     csvw |-> <<>>, csvwErr |-> Nil,
     gzw |-> [hdr |-> FALSE, closed |-> FALSE, pend |-> <<>>, n |-> 0, crc |-> 0, err |-> Nil],
     fw |-> <<>>, fwErr |-> Nil,
     fd |-> <<>>, fdOpen |-> TRUE, quota |-> quota, closeBad |-> closeBad,
     ret |-> Nil, nw |-> 0, log |-> <<>>]

----------------------------------------------------------------------------
(* The marshalers (collaborators) and the framing of the three codecs *)

Digit0 == 48

RECURSIVE Digits(_)
Digits(n) == IF n < 10 THEN <<Digit0 + n>> ELSE Append(Digits(n \div 10), Digit0 + (n % 10))

\* fs.marshaler.Marshal(object): the object v in its canonical JSON text
Marshal(object) == Digits(object)

BE32(n) == <<(n \div 16777216) % 256, (n \div 65536) % 256, (n \div 256) % 256, n % 256>>

ProtoTag == 8

\* proto.Marshal(message): a message with one integer field; the zero value
\* is left out of the encoding
ProtoMarshal(message) == IF message = 0 THEN <<>> ELSE <<ProtoTag, message>>

Comma == 44
Quote == 34
Space == 32
CR == 13
Backslash == 92
Dot == 46
Hash == 35

\* csv.Writer.fieldNeedsQuotes
fieldNeedsQuotes(field) ==
    IF field = <<>> THEN FALSE
    ELSE IF field = <<Backslash, Dot>> THEN TRUE
    ELSE \/ \E i \in 1..Len(field) : field[i] \in {Comma, Quote, CR, NL}
         \/ field[1] \in {Space, 9, 11, 12}

RECURSIVE CsvQuoted(_)
\* the inside of a quoted field: a quote is doubled
CsvQuoted(field) ==
    IF field = <<>> THEN <<>>
    ELSE (IF field[1] = Quote THEN <<Quote, Quote>> ELSE <<field[1]>>) \o CsvQuoted(Tail(field))

CsvField(field) ==
    IF fieldNeedsQuotes(field) THEN <<Quote>> \o CsvQuoted(field) \o <<Quote>> ELSE field

RECURSIVE CsvJoin(_)
CsvJoin(record) ==
    IF record = <<>> THEN <<>>
    ELSE IF Len(record) = 1 THEN CsvField(record[1])
    ELSE CsvField(record[1]) \o <<Comma>> \o CsvJoin(Tail(record))

\* csv.Writer.Write(record): the line the csv.Writer puts into its buffer
CsvLine(record) == Append(CsvJoin(record), NL)

\* jsonStreamWriter.WriteRaw, jsonFileWriter.WriteRaw
\* the message written as it is, without the newline
WriteRawAsIs(s, message) == TopWrite(s, message)

WriteRaw(s, message) == TopWrite(s, Append(message, NL))

\* jsonWrite, behind jsonStreamWriter.Write and jsonFileWriter.Write
jsonWrite(s, object) == TopWrite(s, Append(Marshal(object), NL))

ErrWrongNumber == "wrong number written"

\* the check protobufWrite makes after each of its two writes
ProtoChecked(a, n) ==
    IF a.ret # Nil THEN a
    ELSE IF a.nw # n THEN [a EXCEPT !.ret = ErrWrongNumber]
    ELSE a

\* the second write of protobufWrite: a is the writer after the prefix
ProtoBlob(a, blob) ==
    IF a.ret # Nil THEN a ELSE ProtoChecked(TopWrite(a, blob), Len(blob))

\* protobufWrite, behind the Write of the three proto writers: the length
\* prefix, then the blob, each checked for a short write
protobufWrite(s, message) ==
    ProtoBlob(ProtoChecked(TopWrite(s, BE32(Len(ProtoMarshal(message)))), 4),
              ProtoMarshal(message))

\* the values PandasFriendly replaces: n/a N/A N/a null NULL Null nil NIL Nil
\* nan NaN Nan # and the empty string
EmptyValues ==
    {<<110, 47, 97>>, <<78, 47, 65>>, <<78, 47, 97>>,
     <<110, 117, 108, 108>>, <<78, 85, 76, 76>>, <<78, 117, 108, 108>>,
     <<110, 105, 108>>, <<78, 73, 76>>, <<78, 105, 108>>,
     <<110, 97, 110>>, <<78, 97, 78>>, <<78, 97, 110>>,
     <<Hash>>, <<>>}

\* a PandasFriendly that knows the empty string only
PandasBlankOnly(v) == IF v = <<>> THEN <<Hash>> ELSE v

PandasFriendly(v) == IF v \in EmptyValues THEN <<Hash>> ELSE v

RemoveHash(v) == IF v = <<Hash>> THEN <<>> ELSE v

\* the white space of strings.TrimSpace below 128: \t \n \v \f \r and space
IsSpace(b) == b \in {9, 10, 11, 12, 13, Space}

RECURSIVE TrimLeft(_)
TrimLeft(v) == IF v # <<>> /\ IsSpace(v[1]) THEN TrimLeft(Tail(v)) ELSE v

RECURSIVE TrimRight(_)
TrimRight(v) ==
    IF v # <<>> /\ IsSpace(v[Len(v)]) THEN TrimRight(SubSeq(v, 1, Len(v) - 1)) ELSE v

\* strings.TrimSpace, the processor the callers register first
TrimSpace(v) == TrimRight(TrimLeft(v))

\* one value processor, by its name
Process(p, v) ==
    CASE p = "PandasFriendly" -> PandasFriendly(v)
      [] p = "RemoveHash" -> RemoveHash(v)
      [] p = "TrimSpace" -> TrimSpace(v)

RECURSIVE ApplyAll(_, _)
\* the inner loop of zipValues: every processor, in order
ApplyAll(processors, v) ==
    IF processors = <<>> THEN v
    ELSE ApplyAll(Tail(processors), Process(processors[1], v))

RECURSIVE ApplyAllReversed(_, _)
\* the processors taken last to first
ApplyAllReversed(processors, v) ==
    IF processors = <<>> THEN v
    ELSE Process(processors[1], ApplyAllReversed(Tail(processors), v))

zipValuesReversed(processors, list) ==
    [i \in 1..Len(list) |-> ApplyAllReversed(processors, list[i])]

zipValues(processors, list) == [i \in 1..Len(list) |-> ApplyAll(processors, list[i])]

\* csvStreamWriter.Write, csvFileWriter.Write
csvWrite(s, values) ==
    IF s.procs # Nil THEN TopWrite(s, CsvLine(zipValues(s.procs, values)))
    ELSE TopWrite(s, CsvLine(values))

----------------------------------------------------------------------------
(* Close of the seven writers.  Each step is logged with the error it      *)
(* returned; ret of the result is what Close returns.                      *)

\* if w.bw != nil { w.bw.Flush() }
CloseBw(s) == IF s.gz THEN BwFlush(s) ELSE s

\* if w.gzw != nil { w.gzw.Flush(); err = w.gzw.Close() }
CloseGzw(s) == IF s.gz THEN GzClose(GzFlush(s)) ELSE [s EXCEPT !.ret = Nil]

\* w.fw.Flush(); return err -- c is the writer after the gzip step
ReturnAfterFw(c) == [FwFlush(c) EXCEPT !.ret = c.ret]

\* jsonStreamWriter.Close
jsonStreamWriter_Close(s) == ReturnAfterFw(CloseGzw(CloseBw(s)))

\* a Close that releases the descriptor before the file-side buffer is flushed
CloseFdBeforeFw(s) == FwFlush(FdClose(CloseGzw(CloseBw(s))))

\* jsonFileWriter.Close
jsonFileWriter_Close(s) == FdClose(FwFlush(CloseGzw(CloseBw(s))))

\* protoStreamWriter.Close
protoStreamWriter_Close(s) == ReturnAfterFw(CloseGzw(CloseBw(s)))

\* protoBufWriter.Close
protoBufWriter_Close(s) == [CloseGzw(CloseBw(s)) EXCEPT !.ret = Nil]

\* protoFileWriter.Close
protoFileWriter_Close(s) == FdClose(FwFlush(CloseGzw(CloseBw(s))))

\* csvStreamWriter.Close
csvStreamWriter_Close(s) == CloseGzw(CsvwFlush(s))

\* csvFileWriter.Close
csvFileWriter_Close(s) == FdClose(FwFlush(CloseGzw(CsvwFlush(s))))

\* Close of the writer s, by its class
WriterClose(s) ==
    CASE s.cls = "jsonStream" -> jsonStreamWriter_Close(s)
      [] s.cls = "jsonFile" -> jsonFileWriter_Close(s)
      [] s.cls = "protoStream" -> protoStreamWriter_Close(s)
      [] s.cls = "protoBuf" -> protoBufWriter_Close(s)
      [] s.cls = "protoFile" -> protoFileWriter_Close(s)
      [] s.cls = "csvStream" -> csvStreamWriter_Close(s)
      [] s.cls = "csvFile" -> csvFileWriter_Close(s)

----------------------------------------------------------------------------
(* gzip.Reader: the decoding of the collaborator's coding.  The reader     *)
(* hands out the plain bytes it could decode and then its final error:     *)
(* EOF after a complete stream, another error after a damaged one.         *)

ErrHeader == "gzip.ErrHeader"
ErrChecksum == "gzip.ErrChecksum"
ErrCorrupt == "flate.CorruptInputError"

RECURSIVE GzBody(_, _, _)
\* the body of a gzip stream from byte i on, the header already read
GzBody(bytes, i, plain) ==
    IF i > Len(bytes) THEN [plain |-> plain, endErr |-> ErrUnexpectedEOF]
    ELSE IF bytes[i] >= GzMask THEN GzBody(bytes, i + 1, Append(plain, bytes[i] - GzMask))
    ELSE IF bytes[i] = GzSync THEN GzBody(bytes, i + 1, plain)
    ELSE IF bytes[i] = GzFinal
         THEN IF i + 2 > Len(bytes) THEN [plain |-> plain, endErr |-> ErrUnexpectedEOF]
              ELSE IF <<bytes[i + 1], bytes[i + 2]>>
                        # <<SumSeq(plain) % 256, Len(plain) % 256>>
                   THEN [plain |-> plain, endErr |-> ErrChecksum]
              ELSE IF i + 2 = Len(bytes) THEN [plain |-> plain, endErr |-> EOF]
              ELSE [plain |-> plain, endErr |-> ErrHeader]
    ELSE [plain |-> plain, endErr |-> ErrCorrupt]

\* gzip.NewReader(r) and the reads that follow: hdrErr is NewReader's error
GzDecode(bytes) ==
    IF bytes = <<>> THEN [hdrErr |-> EOF, plain |-> <<>>, endErr |-> EOF]
    ELSE IF bytes[1] # GzMagic THEN [hdrErr |-> ErrHeader, plain |-> <<>>, endErr |-> ErrHeader]
    ELSE [hdrErr |-> Nil] @@ GzBody(bytes, 2, <<>>)

----------------------------------------------------------------------------
(* The readers: JsonStream, JsonFile, ProtoStream, ProtoFile, OpenCsvStream, *)
(* CsvFileReader.  A reader holds the plain bytes of its source (data),      *)
(* how many it has consumed (pos) and the error that ends the source.        *)

ReaderClasses == {"jsonStream", "jsonFile", "protoStream", "protoFile", "csvStream", "csvFile"}

\* errors.Errorf("gzip read error ..., %v", err) of the constructors
ErrGzipRead == "gzip read error"

\* the reader over a decoded source
ReaderOver(cls, gz, dec, closeBad) ==
    [cls |-> cls, gz |-> gz, procs |-> Nil,
     openErr |-> IF dec.hdrErr = Nil THEN Nil ELSE ErrGzipRead,
     data |-> dec.plain, pos |-> 0, endErr |-> dec.endErr,
     lastErr |-> Nil, fpr |-> 0,
     fdOpen |-> IsFileClass(cls), gzOpen |-> gz /\ dec.hdrErr = Nil,
     closeBad |-> closeBad,
     ret |-> Nil, out |-> Nil, log |-> <<>>]

\* the constructors: with gzip, a source that gzip.NewReader rejects gives an
\* error and no reader; a file reader has then not closed its descriptor
NewReader(cls, gz, bytes, closeBad) ==
    IF gz THEN ReaderOver(cls, gz, GzDecode(bytes), closeBad)
    ELSE ReaderOver(cls, gz, [hdrErr |-> Nil, plain |-> bytes, endErr |-> EOF], closeBad)

RECURSIVE IndexFrom(_, _, _)
\* the index of the first b in s after position i, or 0
IndexFrom(s, i, b) ==
    IF i >= Len(s) THEN 0
    ELSE IF s[i + 1] = b THEN i + 1
    ELSE IndexFrom(s, i + 1, b)

\* the line that ends at index nl, or the rest of the source when nl = 0
LineAt(r, nl) ==
    IF nl > 0 THEN [line |-> SubSeq(r.data, r.pos + 1, nl), err |-> Nil, pos |-> nl]
    ELSE [line |-> SubSeq(r.data, r.pos + 1, Len(r.data)), err |-> r.endErr,
          pos |-> Len(r.data)]

\* bufio.Reader.ReadBytes('\n'): the bytes up to and including the delimiter,
\* or what is left together with the error that ends the source
ReadBytes(r) == LineAt(r, IndexFrom(r.data, r.pos, NL))

DecodeError == "DecodeError"

\* a JSON number: digits, no leading zero
IsDigits(b) ==
    /\ b # <<>>
    /\ \A i \in 1..Len(b) : b[i] \in Digit0..(Digit0 + 9)
    /\ Len(b) > 1 => b[1] # Digit0

RECURSIVE DigitsValue(_)
DigitsValue(b) ==
    IF b = <<>> THEN 0 ELSE 10 * DigitsValue(SubSeq(b, 1, Len(b) - 1)) + (b[Len(b)] - Digit0)

\* the value without the white space the decoder skips after it
TrimNL(jsonBin) ==
    IF jsonBin # <<>> /\ jsonBin[Len(jsonBin)] = NL
    THEN SubSeq(jsonBin, 1, Len(jsonBin) - 1) ELSE jsonBin

DecodeValue(body) ==
    IF IsDigits(body) THEN [out |-> DigitsValue(body), err |-> Nil]
    ELSE [out |-> Nil, err |-> DecodeError]

\* fs.marshaler.Unmarshal(jsonBin, holder): out is the decoded object
Unmarshal(jsonBin) == DecodeValue(TrimNL(jsonBin))

\* ReadRaw after its ReadBytes returned l
ReadRawLine(r, l) ==
    IF Len(l.line) > 0 /\ l.err = Nil
    THEN [r EXCEPT !.pos = l.pos, !.out = SubSeq(l.line, 1, Len(l.line) - 1), !.ret = Nil]
    ELSE IF Len(l.line) > 0 /\ l.err = EOF
    THEN [r EXCEPT !.pos = l.pos, !.lastErr = EOF, !.out = l.line, !.ret = Nil]
    ELSE [r EXCEPT !.pos = l.pos, !.out = l.line, !.ret = l.err]

\* a reader that takes an empty line for the end of the stream
BlankIsEOF(x) ==
    IF x.ret = Nil /\ x.out = <<>> THEN [x EXCEPT !.ret = EOF, !.out = Nil] ELSE x

ReadRawBlankIsEOF(r) ==
    IF r.lastErr # Nil THEN [r EXCEPT !.out = Nil, !.ret = r.lastErr]
    ELSE BlankIsEOF(ReadRawLine(r, ReadBytes(r)))

\* jsonStreamReader.ReadRaw, jsonFileReader.ReadRaw
ReadRaw(r) ==
    IF r.lastErr # Nil THEN [r EXCEPT !.out = Nil, !.ret = r.lastErr]
    ELSE ReadRawLine(r, ReadBytes(r))

\* the end of Read: u is what Unmarshal made of the line l
ReadDecoded(r, l, u) ==
    [r EXCEPT !.pos = l.pos,
              !.lastErr = IF l.err # Nil THEN l.err ELSE @,
              !.out = u.out, !.ret = u.err]

\* a Read that gives up the last line when it has no '\n'
ReadLineDropsLast(r, l) ==
    IF l.err # Nil THEN [r EXCEPT !.pos = l.pos, !.out = Nil, !.ret = l.err]
    ELSE ReadDecoded(r, l, Unmarshal(l.line))

\* Read after its ReadBytes returned l
ReadLine(r, l) ==
    IF l.err # Nil /\ ~(l.err = EOF /\ Len(l.line) > 0)
    THEN [r EXCEPT !.pos = l.pos, !.out = Nil, !.ret = l.err]
    ELSE ReadDecoded(r, l, Unmarshal(l.line))

\* jsonStreamReader.Read, jsonFileReader.Read
Read(r) ==
    IF r.lastErr # Nil THEN [r EXCEPT !.out = Nil, !.ret = r.lastErr]
    ELSE ReadLine(r, ReadBytes(r))

\* io.ReadFull(r.r, buf) with len(buf) = n: EOF only when no byte was read
ReadFull(r, n) ==
    IF Len(r.data) - r.pos >= n
    THEN [block |-> SubSeq(r.data, r.pos + 1, r.pos + n), err |-> Nil, pos |-> r.pos + n]
    ELSE [block |-> SubSeq(r.data, r.pos + 1, Len(r.data)),
          err |-> IF Len(r.data) - r.pos > 0 /\ r.endErr = EOF
                  THEN ErrUnexpectedEOF ELSE r.endErr,
          pos |-> Len(r.data)]

BE32Value(b) == ((b[1] * 256 + b[2]) * 256 + b[3]) * 256 + b[4]

\* proto.Unmarshal(block, message)
ProtoUnmarshal(block) ==
    IF block = <<>> THEN [out |-> 0, err |-> Nil]
    ELSE IF Len(block) = 2 /\ block[1] = ProtoTag /\ block[2] < GzMask
         THEN [out |-> block[2], err |-> Nil]
    ELSE [out |-> Nil, err |-> DecodeError]

\* the end of ReadTo: u is what proto.Unmarshal made of the block b
ReadToDecoded(r, b, u) == [r EXCEPT !.pos = b.pos, !.out = u.out, !.ret = u.err]

\* ReadTo after the second io.ReadFull returned b
ReadToBlock(r, b) ==
    IF b.err # Nil THEN [r EXCEPT !.pos = b.pos, !.out = Nil, !.ret = b.err]
    ELSE ReadToDecoded(r, b, ProtoUnmarshal(b.block))

\* ReadTo after the first io.ReadFull returned lenBuf
ReadToPrefix(r, lenBuf) ==
    IF lenBuf.err # Nil THEN [r EXCEPT !.pos = lenBuf.pos, !.out = Nil, !.ret = lenBuf.err]
    ELSE ReadToBlock(r, ReadFull([r EXCEPT !.pos = lenBuf.pos], BE32Value(lenBuf.block)))

\* protoStreamReader.ReadTo, protoFileReader.ReadTo
ReadTo(r) == ReadToPrefix(r, ReadFull(r, 4))

----------------------------------------------------------------------------
(* csv.Reader (collaborator): comma-separated fields, double-quote         *)
(* quoting, blank lines skipped, the field count of the first record       *)
(* binding the later ones (FieldsPerRecord is left 0 by csv.NewReader).    *)

ErrBareQuote == "csv.ErrBareQuote"
ErrQuote == "csv.ErrQuote"
ErrFieldCount == "csv.ErrFieldCount"

\* "\r\n" at the end of a line is read as "\n"
NormalizeCRLF(line) ==
    IF Len(line) >= 2 /\ line[Len(line) - 1] = CR /\ line[Len(line)] = NL
    THEN Append(SubSeq(line, 1, Len(line) - 2), NL) ELSE line

\* a '\r' before the end of the source is dropped
DropLastCR(line) ==
    IF line[Len(line)] = CR THEN SubSeq(line, 1, Len(line) - 1) ELSE line

\* readLine, nl being the index of the next '\n' or 0
readLineAt(r, pos, nl) ==
    IF nl > 0
    THEN [line |-> NormalizeCRLF(SubSeq(r.data, pos + 1, nl)), err |-> Nil, pos |-> nl]
    ELSE IF pos < Len(r.data) /\ r.endErr = EOF
    THEN [line |-> NormalizeCRLF(DropLastCR(SubSeq(r.data, pos + 1, Len(r.data)))),
          err |-> Nil, pos |-> Len(r.data)]
    ELSE [line |-> NormalizeCRLF(SubSeq(r.data, pos + 1, Len(r.data))),
          err |-> r.endErr, pos |-> Len(r.data)]

\* csv.Reader.readLine: the next line with its '\n'; an unterminated last
\* line is a line
readLine(r, pos) == readLineAt(r, pos, IndexFrom(r.data, pos, NL))

lengthNL(line) == IF line # <<>> /\ line[Len(line)] = NL THEN 1 ELSE 0

RECURSIVE nextLine(_, _)
\* the line l unless it is blank, else the first later line that is not
skipBlank(r, l) ==
    IF l.err = Nil /\ Len(l.line) = lengthNL(l.line) THEN nextLine(r, l.pos) ELSE l

\* the first loop of readRecord
nextLine(r, pos) == skipBlank(r, readLine(r, pos))

\* what the parse loop leaves: the fields, its error, the reader's position
\* and the error of the last readLine
Parsed(fields, err, pos, errRead) ==
    [fields |-> fields, err |-> err, pos |-> pos, errRead |-> errRead]

RECURSIVE parseField(_, _, _, _, _)
RECURSIVE parseQuoted(_, _, _, _, _, _)

\* the non-quoted field up to the comma at index i, or up to the end of line
UnquotedField(line, i) ==
    IF i > 0 THEN SubSeq(line, 1, i - 1) ELSE SubSeq(line, 1, Len(line) - lengthNL(line))

\* a non-quoted field must not hold a quote; after a comma the next field
parseUnquoted(r, line, fields, pos, errRead, i, field) ==
    IF \E j \in 1..Len(field) : field[j] = Quote
    THEN Parsed(fields, ErrBareQuote, pos, errRead)
    ELSE IF i > 0 THEN parseField(r, Drop(line, i), Append(fields, field), pos, errRead)
    ELSE Parsed(Append(fields, field), Nil, pos, errRead)

parseUnquotedAt(r, line, fields, pos, errRead, i) ==
    parseUnquoted(r, line, fields, pos, errRead, i, UnquotedField(line, i))

\* the label parseField of readRecord: the fields of the record from line on
parseField(r, line, fields, pos, errRead) ==
    IF line = <<>> \/ line[1] # Quote
    THEN parseUnquotedAt(r, line, fields, pos, errRead, IndexFrom(line, 0, Comma))
    ELSE parseQuoted(r, Tail(line), <<>>, fields, pos, errRead)

\* what follows a quote inside a quoted field: a second quote, a comma, the
\* end of the line, or an error
afterQuote(r, rest, got, fields, pos, errRead) ==
    IF rest # <<>> /\ rest[1] = Quote
    THEN parseQuoted(r, Tail(rest), Append(got, Quote), fields, pos, errRead)
    ELSE IF rest # <<>> /\ rest[1] = Comma
    THEN parseField(r, Tail(rest), Append(fields, got), pos, errRead)
    ELSE IF lengthNL(rest) = Len(rest) THEN Parsed(Append(fields, got), Nil, pos, errRead)
    ELSE Parsed(fields, ErrQuote, pos, errRead)

\* a quoted field goes on in the next line l
continueQuoted(r, l, buf, fields) ==
    parseQuoted(r, l.line, buf, fields, l.pos, IF l.err = EOF THEN Nil ELSE l.err)

parseQuotedAt(r, line, buf, fields, pos, errRead, i) ==
    IF i > 0
    THEN afterQuote(r, Drop(line, i), buf \o SubSeq(line, 1, i - 1), fields, pos, errRead)
    ELSE IF Len(line) > 0
    THEN IF errRead # Nil THEN Parsed(fields, Nil, pos, errRead)
         ELSE continueQuoted(r, readLine(r, pos), buf \o line, fields)
    ELSE IF errRead = Nil THEN Parsed(fields, ErrQuote, pos, errRead)
    ELSE Parsed(Append(fields, buf), Nil, pos, errRead)

\* the inner loop of readRecord over a quoted field, buf being the field so far
parseQuoted(r, line, buf, fields, pos, errRead) ==
    parseQuotedAt(r, line, buf, fields, pos, errRead, IndexFrom(line, 0, Quote))

\* the end of readRecord: FieldsPerRecord is checked, or set by the first record
checkFields(r, f, err) ==
    IF r.fpr > 0
    THEN [r EXCEPT !.pos = f.pos, !.out = f.fields,
                   !.ret = IF Len(f.fields) # r.fpr /\ err = Nil THEN ErrFieldCount ELSE err]
    ELSE [r EXCEPT !.pos = f.pos, !.out = f.fields, !.ret = err, !.fpr = Len(f.fields)]

recordOf(r, f) == checkFields(r, f, IF f.err = Nil THEN f.errRead ELSE f.err)

readRecordAt(r, l) ==
    IF l.err = EOF THEN [r EXCEPT !.pos = l.pos, !.out = Nil, !.ret = EOF]
    ELSE recordOf(r, parseField(r, l.line, <<>>, l.pos, l.err))

\* csv.Reader.Read: out is the record, ret the error, fpr FieldsPerRecord
readRecord(r) == readRecordAt(r, nextLine(r, r.pos))

\* the wrapper around csvr.Read: c is the reader after it
processRecord(c) ==
    IF c.ret # Nil THEN [c EXCEPT !.out = Nil]
    ELSE IF c.procs # Nil THEN [c EXCEPT !.out = zipValues(c.procs, c.out)]
    ELSE c

\* csvStreamReader.Read, csvFileReader.Read
csvRead(r) == processRecord(readRecord(r))

----------------------------------------------------------------------------
(* Close of the readers *)

\* gzip.Reader.Close
GzrClose(r) == Logged([r EXCEPT !.gzOpen = FALSE, !.ret = Nil], "gzr.Close")

\* os.File.Close of a reader's descriptor
FdrClose(r) ==
    Logged([r EXCEPT !.fdOpen = FALSE,
                     !.ret = IF ~r.fdOpen THEN ErrClosed
                             ELSE IF r.closeBad THEN EIO ELSE Nil],
           "fd.Close")

\* if r.gzr != nil { r.gzr.Close() }
CloseGzr(r) == IF r.gz THEN GzrClose(r) ELSE [r EXCEPT !.ret = Nil]

\* jsonStreamReader.Close, csvStreamReader.Close
streamReader_Close(r) == CloseGzr(r)

\* protoStreamReader.Close
protoStreamReader_Close(r) == [CloseGzr(r) EXCEPT !.ret = Nil]

\* jsonFileReader.Close, protoFileReader.Close, csvFileReader.Close
fileReader_Close(r) == FdrClose(CloseGzr(r))

ReaderClose(r) ==
    CASE r.cls \in {"jsonStream", "csvStream"} -> streamReader_Close(r)
      [] r.cls = "protoStream" -> protoStreamReader_Close(r)
      [] OTHER -> fileReader_Close(r)

----------------------------------------------------------------------------
(* Scenario SpecWrite: a writer of any class takes records, is closed, and *)
(* the bytes that reached its sink are read back by the matching reader.   *)

\* the records a writer is given: objects and raw messages (JSON), messages
\* (proto), rows (CSV)
JsonObjects == {[t |-> "obj", v |-> v] : v \in 1..MaxVal}
JsonRaws == {[t |-> "raw", v |-> m] : m \in {<<>>, <<97>>}}
ProtoMessages == {[t |-> "msg", v |-> v] : v \in 0..MaxVal}
CsvRows ==
    {[t |-> "row", v |-> r] :
        r \in {<<<<97>>>>, <<<<>>>>, <<<<97>>, <<Comma>>>>, <<<<Quote, 98>>, <<>>>>}}

FormatOf(cls) ==
    IF cls \in {"jsonStream", "jsonFile"} THEN "json"
    ELSE IF cls \in {"csvStream", "csvFile"} THEN "csv"
    ELSE "proto"

\* the reader class that reads what a writer class wrote
ReaderFor(cls) == IF cls = "protoBuf" THEN "protoStream" ELSE cls

Quotas == {NoQuota} \cup 0..MaxQuota

WriteConfigs ==
    {c \in [cls : WriterClasses, gz : BOOLEAN, size : BufferSizes,
            quota : Quotas, closeBad : BOOLEAN] :
        /\ c.cls = "protoBuf" => c.quota = NoQuota
        /\ c.closeBad => IsFileClass(c.cls)}

NoFault(c) == c.quota = NoQuota /\ ~c.closeBad

InitWrite ==
    /\ cfg \in WriteConfigs
    /\ pc = "writing"
    /\ w = NewWriter(cfg.cls, cfg.gz, cfg.size, cfg.quota, cfg.closeBad)
    /\ wlog = [recs |-> <<>>, closeRet |-> Nil]
    /\ rd = Nil
    /\ rlog = <<>>
    /\ files = Nil
    /\ sp = Nil
    /\ jn = Nil
    /\ csv = Nil

\* the writer after Write(rec.v), by the format
WriteOf(s, rec) ==
    CASE rec.t = "obj" -> jsonWrite(s, rec.v)
      [] rec.t = "raw" -> WriteRaw(s, rec.v)
      [] rec.t = "msg" -> protobufWrite(s, rec.v)
      [] rec.t = "row" -> csvWrite(s, rec.v)

\* the call is recorded with the error it returned
Written(s, rec) ==
    /\ w' = s
    /\ wlog' = [wlog EXCEPT !.recs = Append(@, [rec |-> rec, err |-> s.ret])]

\* Write(object), Write(message), Write(values...) of the writer under test
W_Write ==
    /\ pc = "writing"
    /\ Len(wlog.recs) < MaxRecs
    /\ \E rec \in (CASE FormatOf(cfg.cls) = "json" -> JsonObjects
                     [] FormatOf(cfg.cls) = "proto" -> ProtoMessages
                     [] OTHER -> CsvRows) : Written(WriteOf(w, rec), rec)
    /\ UNCHANGED <<cfg, pc, rd, rlog, files, sp, jn, csv>>

\* WriteRaw(message) of a JSON writer
W_WriteRaw ==
    /\ pc = "writing"
    /\ FormatOf(cfg.cls) = "json"
    /\ Len(wlog.recs) < MaxRecs
    /\ \E rec \in JsonRaws : Written(WriteOf(w, rec), rec)
    /\ UNCHANGED <<cfg, pc, rd, rlog, files, sp, jn, csv>>

Closed(s) ==
    /\ w' = s
    /\ wlog' = [wlog EXCEPT !.closeRet = s.ret]

\* Close() of the writer under test
W_Close ==
    /\ pc = "writing"
    /\ Closed(WriterClose(w))
    /\ pc' = "closed"
    /\ UNCHANGED <<cfg, rd, rlog, files, sp, jn, csv>>

\* the matching reader is opened over the bytes that reached the sink
W_Open ==
    /\ pc = "closed"
    /\ cfg.quota = NoQuota
    /\ rd' = NewReader(ReaderFor(cfg.cls), cfg.gz, w.fd, cfg.closeBad)
    /\ pc' = "reading"
    /\ UNCHANGED <<cfg, w, wlog, rlog, files, sp, jn, csv>>

\* the read call that matches the i-th record written: a JSON record written
\* raw is read raw
ReadOf(r, i) ==
    CASE FormatOf(cfg.cls) = "json" ->
            IF i <= Len(wlog.recs) /\ wlog.recs[i].rec.t = "raw" THEN ReadRaw(r) ELSE Read(r)
      [] FormatOf(cfg.cls) = "proto" -> ReadTo(r)
      [] OTHER -> csvRead(r)

\* the call is recorded with what it returned
HasRead(r) ==
    /\ rd' = r
    /\ rlog' = Append(rlog, [out |-> r.out, err |-> r.ret])

\* one read call; one call more than there were records is made
W_Read ==
    /\ pc = "reading"
    /\ Len(rlog) <= Len(wlog.recs)
    /\ HasRead(ReadOf(rd, Len(rlog) + 1))
    /\ UNCHANGED <<cfg, pc, w, wlog, files, sp, jn, csv>>

\* Close() of the reader
W_ReaderClose ==
    /\ pc = "reading"
    /\ Len(rlog) = Len(wlog.recs) + 1
    /\ rd' = ReaderClose(rd)
    /\ pc' = "done"
    /\ UNCHANGED <<cfg, w, wlog, rlog, files, sp, jn, csv>>

NextWrite ==
    \/ W_Write
    \/ W_WriteRaw
    \/ W_Close
    \/ W_Open
    \/ W_Read
    \/ W_ReaderClose

SpecWrite == InitWrite /\ [][NextWrite]_vars

----------------------------------------------------------------------------
(* Properties of the writer stacks (SpecWrite) *)

\* the bytes one record makes in the plain stream
Frame(rec) ==
    CASE rec.t = "obj" -> Append(Marshal(rec.v), NL)
      [] rec.t = "raw" -> Append(rec.v, NL)
      [] rec.t = "msg" -> BE32(Len(ProtoMarshal(rec.v))) \o ProtoMarshal(rec.v)
      [] rec.t = "row" -> CsvLine(rec.v)

RECURSIVE Frames(_)
\* the plain stream of the calls that returned no error
Frames(recs) ==
    IF recs = <<>> THEN <<>>
    ELSE (IF recs[1].err = Nil THEN Frame(recs[1].rec) ELSE <<>>) \o Frames(Tail(recs))

\* the place of a teardown step in the reverse order of construction
Rank(op) ==
    CASE op \in {"bw.Flush", "csvw.Flush"} -> 1
      [] op = "gzw.Flush" -> 2
      [] op = "gzw.Close" -> 3
      [] op = "fw.Flush" -> 4
      [] op = "fd.Close" -> 5

Ops(log) == {log[i].op : i \in 1..Len(log)}

\* the plain bytes that reached the sink, or Nil when they cannot be read back
SinkPlain(s) ==
    IF ~s.gz THEN s.fd
    ELSE IF GzDecode(s.fd).hdrErr = Nil /\ GzDecode(s.fd).endErr = EOF
         THEN GzDecode(s.fd).plain
    ELSE Nil

\* C9: once Close has returned, the teardown steps were taken in reverse
\* order of construction (codec-side buffer, gzip flush, gzip close with its
\* trailer, file-side buffer, descriptor), none was left out, and on a sink
\* that takes every byte the sink holds exactly the bytes of the records
\* written (behind gzip: a complete gzip stream of them) and no layer holds
\* bytes back.
C9_CloseTearsDownInReverseOrder ==
    pc # "writing" =>
        /\ \A i, j \in 1..Len(w.log) : i < j => Rank(w.log[i].op) < Rank(w.log[j].op)
        /\ cfg.gz => {"gzw.Flush", "gzw.Close"} \subseteq Ops(w.log)
        /\ (cfg.gz /\ cfg.cls # "protoBuf" /\ ~IsCsvClass(cfg.cls)) => "bw.Flush" \in Ops(w.log)
        /\ IsCsvClass(cfg.cls) => "csvw.Flush" \in Ops(w.log)
        /\ HasFw(cfg.cls) => "fw.Flush" \in Ops(w.log)
        /\ IsFileClass(cfg.cls) => "fd.Close" \in Ops(w.log)
        /\ cfg.quota = NoQuota =>
              /\ SinkPlain(w) = Frames(wlog.recs)
              /\ w.bw = <<>> /\ w.csvw = <<>> /\ w.fw = <<>> /\ w.gzw.pend = <<>>

\* a gzip file writer over small buffers was closed after two records
C9_Witness ==
    /\ pc = "closed"
    /\ cfg.gz /\ IsFileClass(cfg.cls) /\ cfg.size = SmallBuf /\ cfg.quota = NoQuota
    /\ Len(wlog.recs) >= 2
    /\ Len(w.log) = 5
    /\ Len(w.fd) > 4

\* the first error among the teardown steps of a Close, nil if there is none
RECURSIVE FirstError(_)
FirstError(log) ==
    IF log = <<>> THEN Nil
    ELSE IF log[1].err # Nil THEN log[1].err
    ELSE FirstError(Tail(log))

\* C10: Close of a writer takes every teardown step and returns the first
\* error among the steps; it returns nil only if every step succeeded.
C10_CloseReturnsFirstError ==
    pc # "writing" => wlog.closeRet = FirstError(w.log)

\* C5: for every format, with and without gzip, the records written through
\* a writer that reported no error and was closed are read back by the
\* matching reader, equal and in order, and the read after the last record
\* returns io.EOF.
C5_RoundTrip ==
    (/\ pc = "done"
     /\ NoFault(cfg)
     /\ wlog.closeRet = Nil
     /\ \A i \in 1..Len(wlog.recs) : wlog.recs[i].err = Nil)
    => /\ Len(rlog) = Len(wlog.recs) + 1
       /\ \A i \in 1..Len(wlog.recs) :
             rlog[i].err = Nil /\ rlog[i].out = wlog.recs[i].rec.v
       /\ rlog[Len(rlog)].err = EOF

\* the bytes are the frames of the first k records written, for some k
WholeRecords(bytes) ==
    \E k \in 0..Len(wlog.recs) : bytes = Frames(SubSeq(wlog.recs, 1, k))

\* the plain bytes a reader of the sink of s can see now
VisiblePlain(s) == IF s.gz THEN GzDecode(s.fd).plain ELSE s.fd

\* C26: between the calls of a JSON writer on a sink that takes every byte,
\* the bytes that have reached the file or stream are a concatenation of
\* whole records, each with its '\n': no part of a record is in the sink
\* without the rest of it.
C26_SinkHoldsWholeRecords ==
    (FormatOf(cfg.cls) = "json" /\ NoFault(cfg) /\ pc \in {"writing", "closed"}) =>
        WholeRecords(VisiblePlain(w))

----------------------------------------------------------------------------
(* Scenario SpecRead: a reader of any class is opened over a byte stream   *)
(* and read until the caller stops; behind gzip the stream may have lost   *)
(* its last byte.                                                          *)

\* gzip.NewWriter(&buf), Write(plain), Close(): the bytes in buf
GzEncode(plain) ==
    GzClose(GzWrite(NewWriter("protoBuf", TRUE, DefaultBufferSize, NoQuota, FALSE), plain)).fd

JsonBytes == {NL, 49, 97}
ProtoBytes == {0, 2, ProtoTag}
CsvBytes == {NL, 97, Comma, Quote}

\* the plain streams a reader of the class is given
StreamsOf(cls) ==
    CASE FormatOf(cls) = "json" -> SeqsUpTo(JsonBytes, MaxStream)
      [] FormatOf(cls) = "proto" -> SeqsUpTo(ProtoBytes, MaxProtoStream)
      [] OTHER -> SeqsUpTo(CsvBytes, MaxStream)

ReadConfigs ==
    UNION {{c \in [cls : {cls}, gz : BOOLEAN, cut : 0..1, plain : StreamsOf(cls)] :
               ~c.gz => c.cut = 0} : cls \in ReaderClasses}

\* the bytes of the source: the plain stream, or its gzip coding without
\* the last cut bytes
SourceOf(c) ==
    IF c.gz THEN Take(GzEncode(c.plain), Len(GzEncode(c.plain)) - c.cut) ELSE c.plain

InitRead ==
    /\ cfg \in ReadConfigs
    /\ pc = "reading"
    /\ rd = NewReader(cfg.cls, cfg.gz, SourceOf(cfg), FALSE)
    /\ rlog = <<>>
    /\ w = Nil
    /\ wlog = Nil
    /\ files = Nil
    /\ sp = Nil
    /\ jn = Nil
    /\ csv = Nil

\* the call is recorded with what it returned and the positions of the
\* reader in the plain stream before and after it
Called(op, r) ==
    /\ rd' = r
    /\ rlog' = Append(rlog, [op |-> op, out |-> r.out, err |-> r.ret,
                             pos0 |-> rd.pos, pos1 |-> r.pos])
    /\ UNCHANGED <<cfg, pc, w, wlog, files, sp, jn, csv>>

CanRead(fmt) == pc = "reading" /\ FormatOf(cfg.cls) = fmt /\ Len(rlog) < MaxReads

\* Read(holder) of a JSON reader
R_Read == CanRead("json") /\ Called("Read", Read(rd))

\* ReadRaw() of a JSON reader
R_ReadRaw == CanRead("json") /\ Called("ReadRaw", ReadRaw(rd))

\* ReadTo(message) of a proto reader
R_ReadTo == CanRead("proto") /\ Called("ReadTo", ReadTo(rd))

\* Read() of a CSV reader
R_CsvRead == CanRead("csv") /\ Called("Read", csvRead(rd))

\* Close() of the reader
R_Close ==
    /\ pc = "reading"
    /\ rd' = ReaderClose(rd)
    /\ pc' = "closed"
    /\ UNCHANGED <<cfg, w, wlog, rlog, files, sp, jn, csv>>

NextRead ==
    \/ R_Read
    \/ R_ReadRaw
    \/ R_ReadTo
    \/ R_CsvRead
    \/ R_Close

SpecRead == InitRead /\ [][NextRead]_vars

----------------------------------------------------------------------------
(* Properties of the readers (SpecRead) *)

NoRecord(e) == e.out = Nil \/ e.out = <<>>

\* C6: once a read call of a reader has returned io.EOF, every later read
\* call on it (Read and ReadRaw in any mix, ReadTo, the CSV Read) returns
\* io.EOF again and no record.
C6_EOFIsTerminal ==
    \A i, j \in 1..Len(rlog) :
        (i < j /\ rlog[i].err = EOF) => (rlog[j].err = EOF /\ NoRecord(rlog[j]))

\* a reader returned io.EOF and was called twice more, in both JSON modes
C6_Witness ==
    /\ Len(rlog) >= 4
    /\ rlog[1].err = Nil
    /\ rlog[2].err = EOF
    /\ rlog[3].op # rlog[4].op

\* the call e read the last line of the stream and that line has no '\n'
ReadsOpenLastLine(e) ==
    /\ e.pos0 < Len(rd.data)
    /\ e.pos1 = Len(rd.data)
    /\ rd.data[Len(rd.data)] # NL

\* C7: in a JSON reader over a stream that ends, the call that reads a last
\* line without '\n' returns that line without error (ReadRaw: its bytes;
\* Read: the decoded value when the line is a JSON value) and never io.EOF,
\* the call after it returns io.EOF, and a call made at the end of the
\* stream returns io.EOF and no record, so nothing follows a final '\n'.
C7_LastLineOnceThenEOF ==
    (FormatOf(cfg.cls) = "json" /\ rd.endErr = EOF) =>
        \A i \in 1..Len(rlog) :
            /\ ReadsOpenLastLine(rlog[i]) =>
                  /\ rlog[i].err # EOF
                  /\ rlog[i].op = "ReadRaw" =>
                        /\ rlog[i].err = Nil
                        /\ rlog[i].out = SubSeq(rd.data, rlog[i].pos0 + 1, Len(rd.data))
                  /\ (rlog[i].op = "Read"
                        /\ IsDigits(SubSeq(rd.data, rlog[i].pos0 + 1, Len(rd.data)))) =>
                        /\ rlog[i].err = Nil
                        /\ rlog[i].out
                              = DigitsValue(SubSeq(rd.data, rlog[i].pos0 + 1, Len(rd.data)))
                  /\ i < Len(rlog) => rlog[i + 1].err = EOF /\ NoRecord(rlog[i + 1])
            /\ rlog[i].pos0 = Len(rd.data) => rlog[i].err = EOF /\ NoRecord(rlog[i])

\* Read decoded a last line without '\n' and the next call returned io.EOF
C7_Witness ==
    /\ FormatOf(cfg.cls) = "json" /\ rd.endErr = EOF
    /\ Len(rlog) >= 3
    /\ rlog[2].op = "Read" /\ ReadsOpenLastLine(rlog[2]) /\ rlog[2].err = Nil
    /\ rlog[2].pos0 > 0
    /\ rlog[3].err = EOF

\* C8: ReadTo returns io.EOF only when no byte is left at the start of the
\* length prefix; a stream that ends inside a record gives another error.
C8_EOFOnlyAtRecordBoundary ==
    FormatOf(cfg.cls) = "proto" =>
        \A i \in 1..Len(rlog) : rlog[i].err = EOF => rlog[i].pos0 = Len(rd.data)

----------------------------------------------------------------------------
(* Split and Join.  The disk is files: the input file, the part files by   *)
(* their number (partFn is the identity on part numbers) and the output    *)
(* file of Join, each Absent or a sequence of bytes.  The operators below  *)
(* work on the state of one call together with the disk (field files).     *)

\* a file that is not there (no byte is negative)
Absent == <<0 - 1>>

\* no reader, no writer: the nil of a variable of interface type
None == [cls |-> "none"]
ErrCreate == "file create error"
ErrOpen == "file open error"

FileClass(fmt) ==
    CASE fmt = "json" -> "jsonFile"
      [] fmt = "proto" -> "protoFile"
      [] fmt = "csv" -> "csvFile"

Range(seq) == {seq[i] : i \in 1..Len(seq)}

\* the call has opened or closed a reader or a writer (ghost): the reader of
\* the input and the writer of the output are number 0, the writer of a part
\* and the reader of a part have the number of the part
Did(s, op, kind, of) == [s EXCEPT !.ev = Append(@, [op |-> op, kind |-> kind, of |-> of])]

\* the sink of part k takes every byte unless the part is the one with the
\* full disk
QuotaOf(k) ==
    IF cfg.fault.kind = "quota" /\ cfg.fault.part = k THEN cfg.fault.quota ELSE NoQuota

\* t.NewJsonFile(partFilePath), t.NewProtoFile, t.NewCsvFile: os.Create and
\* the writer stack over the new file
Created(s, name, k, pcNext) ==
    [Did(s, "open", "writer", k) EXCEPT
              !.writer = NewWriter(FileClass(cfg.fmt), cfg.gz, cfg.size, QuotaOf(k), FALSE),
              !.cur = k,
              !.files = IF name = "out" THEN [@ EXCEPT !.out = <<>>]
                        ELSE [@ EXCEPT !.part[k] = <<>>],
              !.pc = pcNext]

\* the file of the open writer holds what reached the writer's sink
Synced(s) ==
    IF s.cur = 0 THEN [s EXCEPT !.files.out = s.writer.fd]
    ELSE [s EXCEPT !.files.part[s.cur] = s.writer.fd]

\* writer.Close(), its error dropped
WriterClosed(s) ==
    Did(Synced([s EXCEPT !.writer = WriterClose(s.writer)]), "close", "writer", s.cur)

\* the previous writer dropped without Close
DropCurrent(s) == [s EXCEPT !.writer = None]

\* if writer != nil { writer.Close(); writer = nil }
CloseCurrent(s) ==
    IF s.writer = None THEN s ELSE [WriterClosed(s) EXCEPT !.writer = None]

\* the deferred reader.Close() and the return of (parts, err)
Return(s, parts, err) ==
    [(IF s.reader = None THEN s
      ELSE Did([s EXCEPT !.reader = ReaderClose(s.reader)], "close", "reader", 0)) EXCEPT
              !.ret = [parts |-> parts, err |-> err],
              !.pc = "returned"]

\* the reader of an input or part file: os.Open fails on a file that is not
\* there
OpenFile(bytes) ==
    IF bytes = Absent
    THEN [openErr |-> ErrOpen, fdOpen |-> FALSE]
    ELSE NewReader(FileClass(cfg.fmt), cfg.gz, bytes, FALSE)

\* the open r has returned an error and no reader: the descriptor of r, if
\* it is still open, has no owner that could close it
OpenFailed(s, r) == [s EXCEPT !.unowned = r.fdOpen]

\* reader, err := t.OpenJsonFile(inputFilePath) and the head of the loop:
\* partNum := 1; cnt := limit
SplitOpened(s, r) ==
    IF r.openErr # Nil THEN Return(OpenFailed(s, r), <<>>, r.openErr)
    ELSE [Did(s, "open", "reader", 0) EXCEPT
              !.reader = r, !.err = Nil, !.partNum = 1, !.cnt = cfg.limit, !.pc = "loop"]

\* SplitJsonFile, up to the loop
SplitJsonFile_Open(s) == SplitOpened(s, OpenFile(s.files.in))

\* SplitProtoFile, up to the loop
SplitProtoFile_Open(s) == SplitOpened(s, OpenFile(s.files.in))

\* a Split that reads the header and leaves it in the input for the loop
SplitHeaderLeftInInput(s, h) ==
    IF h.ret # Nil THEN Return([s EXCEPT !.reader = h], <<>>, h.ret)
    ELSE [s EXCEPT !.reader = [h EXCEPT !.pos = 0], !.header = h.out, !.err = Nil,
                   !.partNum = 1, !.cnt = cfg.limit, !.pc = "loop"]

\* header, err := reader.Read() of SplitCsvFile: h is the reader after it
SplitHeaderRead(s, h) ==
    IF h.ret # Nil THEN Return([s EXCEPT !.reader = h], <<>>, h.ret)
    ELSE [s EXCEPT !.reader = h, !.header = h.out, !.err = Nil,
                   !.partNum = 1, !.cnt = cfg.limit, !.pc = "loop"]

SplitCsvOpened(s, r) ==
    IF r.openErr # Nil THEN Return(OpenFailed(s, r), <<>>, r.openErr)
    ELSE SplitHeaderRead(Did(s, "open", "reader", 0), csvRead(r))

\* SplitCsvFile, up to the loop
SplitCsvFile_Open(s) == SplitCsvOpened(s, OpenFile(s.files.in))

\* a failed read that does not leave the loop
SplitReadGoesOn(s, r, e) ==
    IF r.ret # Nil
    THEN [s EXCEPT !.reader = r, ![e] = r.ret, !.iters = @ + 1, !.readErr = r.ret,
                   !.pc = "loop"]
    ELSE [s EXCEPT !.reader = r, ![e] = Nil, !.raw = r.out, !.iters = @ + 1,
                   !.pc = IF s.cnt = cfg.limit THEN "rotate" ELSE "write"]

\* the read at the head of the loop body: r is the reader after it, e the
\* variable that takes its error -- err of the function, or the err that
\* the body declares with := (berr)
SplitRead(s, r, e) ==
    IF r.ret # Nil
    THEN [s EXCEPT !.reader = r, ![e] = r.ret, !.iters = @ + 1, !.readErr = r.ret,
                   !.pc = "after"]
    ELSE [s EXCEPT !.reader = r, ![e] = Nil, !.raw = r.out, !.iters = @ + 1,
                   !.pc = IF s.cnt = cfg.limit THEN "rotate" ELSE "write"]

\* raw, err := reader.ReadRaw()
SplitJsonFile_Read(s) == SplitRead(s, ReadRaw(s.reader), "berr")

\* err = reader.ReadTo(holder)
SplitProtoFile_Read(s) == SplitRead(s, ReadTo(s.reader), "err")

\* row, err := reader.Read()
SplitCsvFile_Read(s) == SplitRead(s, csvRead(s.reader), "berr")

\* a part listed without partNum++
PartListedSameNumber(s) == [s EXCEPT !.parts = Append(@, s.partNum), !.cnt = 0]

\* the part is on the list; cnt = 0; partNum++
PartListed(s) ==
    [s EXCEPT !.parts = Append(@, s.partNum), !.cnt = 0, !.partNum = @ + 1]

\* writer, err = t.NewJsonFile(partFilePath) and what follows in the block
\* if cnt == limit, the writer of the part before being closed
SplitCreate(s, e) ==
    IF cfg.fault.kind = "create" /\ cfg.fault.part = s.partNum
    THEN [s EXCEPT ![e] = ErrCreate, !.pc = "after", !.failed = "create"]
    ELSE PartListed(Created(s, "part", s.partNum, "write"))

\* partFilePath := partFn(partNum): the call is recorded (ghost)
partFn(s) == [s EXCEPT !.called = Append(@, s.partNum)]

SplitJsonFile_Rotate(s) == SplitCreate(partFn(CloseCurrent(s)), "berr")

SplitProtoFile_Rotate(s) == SplitCreate(partFn(CloseCurrent(s)), "err")

\* err = writer.Write(header...) in the new part: h is the state after it
HeaderWritten(s, h) ==
    IF h.writer.ret # Nil
    THEN [h EXCEPT !.berr = h.writer.ret, !.pc = "after", !.failed = "write",
                   !.parts = Append(@, s.partNum)]
    ELSE PartListed(h)

WriteHeader(s, c) ==
    HeaderWritten(s, Synced([c EXCEPT !.writer = csvWrite(c.writer, s.header)]))

SplitCsvCreate(s) ==
    IF cfg.fault.kind = "create" /\ cfg.fault.part = s.partNum
    THEN [s EXCEPT !.berr = ErrCreate, !.pc = "after", !.failed = "create"]
    ELSE WriteHeader(s, Created(s, "part", s.partNum, "write"))

SplitCsvFile_Rotate(s) == SplitCsvCreate(partFn(CloseCurrent(s)))

\* the write that ends the loop body, then cnt++ and the loop condition
\* err == nil on the err of the function: x is the state after the write
SplitWritten(x, e) ==
    [x EXCEPT ![e] = x.writer.ret,
              !.cnt = @ + 1,
              !.failed = IF x.writer.ret # Nil /\ @ = "none" THEN "write" ELSE @,
              !.pc = IF (IF e = "err" THEN x.writer.ret ELSE x.err) = Nil
                     THEN "loop" ELSE "after"]

\* err = writer.WriteRaw(raw) -- the err declared in the loop body
SplitJsonFile_Write(s) ==
    SplitWritten(Synced([s EXCEPT !.writer = WriteRaw(s.writer, s.raw)]), "berr")

\* _, err = writer.Write(holder) -- the err of the function
SplitProtoFile_Write(s) ==
    SplitWritten(Synced([s EXCEPT !.writer = protobufWrite(s.writer, s.raw)]), "err")

\* err = writer.Write(row...) -- the err declared in the loop body
SplitCsvFile_Write(s) ==
    SplitWritten(Synced([s EXCEPT !.writer = csvWrite(s.writer, s.raw)]), "berr")

\* for _, part := range parts { os.Remove(part) }
Removed(s) ==
    [s EXCEPT !.files.part = [k \in DOMAIN @ |-> IF k \in Range(s.parts) THEN Absent ELSE @[k]]]

\* what follows the loop, in the three functions alike: io.EOF is the clean
\* end, the open writer is closed, and on an error the parts are removed
SplitFinish(s) ==
    IF s.err = Nil \/ s.err = EOF
    THEN Return(IF s.writer = None THEN s ELSE WriterClosed(s), s.parts, Nil)
    ELSE Return(Removed(IF s.writer = None THEN s ELSE WriterClosed(s)), <<>>, s.err)

----------------------------------------------------------------------------
(* Join *)

\* writer, err := t.NewJsonFile(outputFilePath); defer writer.Close()
JoinStart(j) == [Created(j, "out", 0, "part") EXCEPT !.i = 1]

\* a return of Join: the deferred writer.Close() runs
JoinReturn(j, err) ==
    [WriterClosed(j) EXCEPT !.ret = err, !.pc = "returned"]

\* reader, err := t.OpenJsonFile(part)
JoinOpened(j, r) ==
    IF r.openErr # Nil THEN JoinReturn(OpenFailed([j EXCEPT !.failed = "open"], r), r.openErr)
    ELSE [Did(j, "open", "reader", j.i) EXCEPT !.reader = r, !.err = Nil, !.pc = "copy"]

\* reader.Close() on the reader r of the part
JoinReaderClosed(j, r) == Did([j EXCEPT !.reader = ReaderClose(r)], "close", "reader", j.i)

JoinJsonFiles_Open(j, part) == JoinOpened(j, OpenFile(j.files.part[part]))

JoinProtoFiles_Open(j, part) == JoinOpened(j, OpenFile(j.files.part[part]))

\* if i == 0 { err = writer.Write(header...) }: x is the state after it
JoinHeaderWritten(x) ==
    IF x.writer.ret # Nil
    THEN JoinReturn([JoinReaderClosed(x, x.reader) EXCEPT !.failed = "write"], x.writer.ret)
    ELSE [x EXCEPT !.pc = "copy"]

\* JoinCsvFiles writing the header of every part
JoinHeaderOfEveryPart(j, h) ==
    IF h.ret # Nil
    THEN JoinReturn([JoinReaderClosed(j, h) EXCEPT !.failed = "read"], h.ret)
    ELSE JoinHeaderWritten(Synced([j EXCEPT !.reader = h,
                                            !.writer = csvWrite(j.writer, h.out)]))

\* header, err := reader.Read(): h is the reader after it
JoinHeaderRead(j, h) ==
    IF h.ret # Nil
    THEN JoinReturn([JoinReaderClosed(j, h) EXCEPT !.failed = "read"], h.ret)
    ELSE IF j.i = 1
    THEN JoinHeaderWritten(Synced([j EXCEPT !.reader = h,
                                            !.writer = csvWrite(j.writer, h.out)]))
    ELSE [j EXCEPT !.reader = h, !.err = Nil, !.pc = "copy"]

JoinCsvOpened(j, r) ==
    IF r.openErr # Nil THEN JoinReturn(OpenFailed([j EXCEPT !.failed = "open"], r), r.openErr)
    ELSE JoinHeaderRead(Did(j, "open", "reader", j.i), csvRead(r))

JoinCsvFiles_Open(j, part) == JoinCsvOpened(j, OpenFile(j.files.part[part]))

\* the part as the read that ended it leaves it (r is the reader after that
\* read): a read error other than io.EOF is a failure of the Join
JoinReadEnded(j, r) ==
    [JoinReaderClosed(j, r) EXCEPT !.failed = IF r.ret # EOF THEN "read" ELSE @]

\* the end of a part: reader.Close(), and the error check on the err of the
\* part's scope (e), where io.EOF counts as no error
JoinPartDone(j, r, e) ==
    IF e # Nil /\ e # EOF THEN JoinReturn(JoinReadEnded(j, r), e)
    ELSE [JoinReadEnded(j, r) EXCEPT !.i = @ + 1, !.pc = "part"]

\* the write of the record just read: x is the state after it
JoinWritten(x) ==
    IF x.writer.ret # Nil
    THEN JoinReturn([JoinReaderClosed(x, x.reader) EXCEPT !.failed = "write"], x.writer.ret)
    ELSE x

\* one more pass of the inner for (ghost)
JoinPass(j) == [j EXCEPT !.iters = @ + 1]

\* raw, err := reader.ReadRaw() -- a new err, the part's err stays nil
JoinJsonCopy(j, r) ==
    IF r.ret # Nil THEN JoinPartDone(j, r, j.err)
    ELSE JoinWritten(Synced([j EXCEPT !.reader = r, !.writer = WriteRaw(j.writer, r.out)]))

JoinJsonFiles_Copy(j) == JoinJsonCopy(JoinPass(j), ReadRaw(j.reader))

\* err = reader.ReadTo(row) -- the part's err
JoinProtoCopy(j, r) ==
    IF r.ret # Nil THEN JoinPartDone(j, r, r.ret)
    ELSE JoinWritten(Synced([j EXCEPT !.reader = r,
                                      !.writer = protobufWrite(j.writer, r.out)]))

JoinProtoFiles_Copy(j) == JoinProtoCopy(JoinPass(j), ReadTo(j.reader))

\* row, err := reader.Read() -- a new err, the part's err stays nil
JoinCsvCopy(j, r) ==
    IF r.ret # Nil THEN JoinPartDone(j, r, j.err)
    ELSE JoinWritten(Synced([j EXCEPT !.reader = r, !.writer = csvWrite(j.writer, r.out)]))

JoinCsvFiles_Copy(j) == JoinCsvCopy(JoinPass(j), csvRead(j.reader))

----------------------------------------------------------------------------
(* Scenario SpecSplit: an input file written by the format's file writer   *)
(* is split with a limit, creating a part or writing to it may fail, and   *)
(* the parts of a Split that returned no error are joined.                 *)

JsonSplitRecs == {[t |-> "obj", v |-> v] : v \in {1, 2}}
ProtoSplitRecs == {[t |-> "msg", v |-> v] : v \in {0, 1}}
CsvSplitRecs == {[t |-> "row", v |-> r] : r \in {<<<<97>>>>, <<<<97>>, <<98>>>>}}
CsvHeader == [t |-> "row", v |-> <<<<104>>>>]

SplitRecsOf(fmt) ==
    CASE fmt = "json" -> JsonSplitRecs
      [] fmt = "proto" -> ProtoSplitRecs
      [] fmt = "csv" -> CsvSplitRecs

FaultParts == 1..2

\* what goes wrong: nothing; the creation of part k; the disk is full after
\* quota bytes of part k, or of the output of Join (part 0); part k is gone,
\* or has lost its last byte, when Join is called
SplitFaults ==
    {[kind |-> "none", part |-> 0, quota |-> NoQuota]}
    \cup {[kind |-> "create", part |-> k, quota |-> NoQuota] : k \in FaultParts}
    \cup {[kind |-> "quota", part |-> k, quota |-> q] : k \in {0} \cup FaultParts, q \in 0..MaxQuota}
    \cup {[kind |-> f, part |-> k, quota |-> NoQuota] : f \in {"missing", "torn"}, k \in FaultParts}

\* the header of a CSV part that another producer wrote
OtherHeader == [t |-> "row", v |-> <<<<103>>>>]

\* a CSV part may also come with a header of its own when Join is called
FaultsOf(fmt) ==
    IF fmt = "csv"
    THEN SplitFaults \cup {[kind |-> "retitled", part |-> k, quota |-> NoQuota] : k \in FaultParts}
    ELSE SplitFaults

SplitConfigs ==
    UNION {[fmt : {fmt}, gz : BOOLEAN, size : BufferSizes,
            recs : SeqsUpTo(SplitRecsOf(fmt), MaxSplitRecs),
            limit : 1..MaxLimit, fault : FaultsOf(fmt)] : fmt \in {"json", "proto", "csv"}}

RECURSIVE WriteAll(_, _)
\* the writer after the records were written to it, one Write each
WriteAll(s, recs) ==
    IF recs = <<>> THEN s ELSE WriteAll(WriteOf(s, recs[1]), Tail(recs))

\* the input file: the records (for CSV after the header row) written by
\* the format's file writer and closed
InputBytes(c) ==
    WriterClose(WriteAll(NewWriter(FileClass(c.fmt), c.gz, c.size, NoQuota, FALSE),
                         IF c.fmt = "csv" THEN <<CsvHeader>> \o c.recs ELSE c.recs)).fd

InitSplit ==
    /\ cfg \in SplitConfigs
    /\ pc = "split"
    /\ files = [in |-> InputBytes(cfg), out |-> Absent,
                part |-> [k \in 1..MaxSplitRecs |-> Absent]]
    /\ sp = [pc |-> "start", reader |-> None, header |-> Nil, writer |-> None, cur |-> 0,
             parts |-> <<>>, partNum |-> 1, cnt |-> 0, err |-> Nil, berr |-> Nil,
             raw |-> Nil, failed |-> "none", ret |-> Nil, files |-> Nil,
             called |-> <<>>, iters |-> 0, readErr |-> Nil, ev |-> <<>>,
             unowned |-> FALSE]
    /\ jn = [pc |-> "idle", reader |-> None, writer |-> None, cur |-> 0, i |-> 0,
             err |-> Nil, failed |-> "none", ret |-> Nil, files |-> Nil,
             iters |-> 0, ev |-> <<>>, unowned |-> FALSE]
    /\ w = Nil
    /\ wlog = Nil
    /\ rd = Nil
    /\ rlog = Nil
    /\ csv = Nil

\* a step of Split leaves the state n of the call and the disk
SplitBecomes(n) ==
    /\ sp' = [n EXCEPT !.files = Nil]
    /\ files' = n.files
    /\ UNCHANGED <<cfg, pc, w, wlog, rd, rlog, jn, csv>>

SplitAt(at) == pc = "split" /\ sp.pc = at

\* Split opens the input (and reads the CSV header)
S_Open ==
    /\ SplitAt("start")
    /\ SplitBecomes(CASE cfg.fmt = "json" -> SplitJsonFile_Open([sp EXCEPT !.files = files])
                      [] cfg.fmt = "proto" -> SplitProtoFile_Open([sp EXCEPT !.files = files])
                      [] cfg.fmt = "csv" -> SplitCsvFile_Open([sp EXCEPT !.files = files]))

\* the loop body reads the next record
S_Read ==
    /\ SplitAt("loop")
    /\ SplitBecomes(CASE cfg.fmt = "json" -> SplitJsonFile_Read([sp EXCEPT !.files = files])
                      [] cfg.fmt = "proto" -> SplitProtoFile_Read([sp EXCEPT !.files = files])
                      [] cfg.fmt = "csv" -> SplitCsvFile_Read([sp EXCEPT !.files = files]))

\* cnt == limit: the part is closed and the next one created
S_Rotate ==
    /\ SplitAt("rotate")
    /\ SplitBecomes(CASE cfg.fmt = "json" -> SplitJsonFile_Rotate([sp EXCEPT !.files = files])
                      [] cfg.fmt = "proto" -> SplitProtoFile_Rotate([sp EXCEPT !.files = files])
                      [] cfg.fmt = "csv" -> SplitCsvFile_Rotate([sp EXCEPT !.files = files]))

\* the record is written to the part
S_Write ==
    /\ SplitAt("write")
    /\ SplitBecomes(CASE cfg.fmt = "json" -> SplitJsonFile_Write([sp EXCEPT !.files = files])
                      [] cfg.fmt = "proto" -> SplitProtoFile_Write([sp EXCEPT !.files = files])
                      [] cfg.fmt = "csv" -> SplitCsvFile_Write([sp EXCEPT !.files = files]))

\* the loop is over: Split closes, cleans up and returns
S_Finish ==
    /\ SplitAt("after")
    /\ SplitBecomes(SplitFinish([sp EXCEPT !.files = files]))

\* a step of Join leaves the state n of the call and the disk
JoinBecomes(n) ==
    /\ jn' = [n EXCEPT !.files = Nil]
    /\ files' = n.files
    /\ UNCHANGED <<cfg, pc, w, wlog, rd, rlog, sp, csv>>

\* the read call Split and Join make on a file of the format
ReadNext(r) ==
    CASE cfg.fmt = "json" -> ReadRaw(r)
      [] cfg.fmt = "proto" -> ReadTo(r)
      [] cfg.fmt = "csv" -> csvRead(r)

RECURSIVE ReadAll(_, _)
Collect(x, acc) == IF x.ret # Nil THEN acc ELSE ReadAll(x, Append(acc, x.out))

\* the records a reader yields before its first error
ReadAll(r, acc) == Collect(ReadNext(r), acc)

\* the CSV file of the rows (the first one the header) as the file writer
\* of the configuration writes it
CsvFileOf(rows) ==
    WriterClose(WriteAll(NewWriter("csvFile", cfg.gz, cfg.size, NoQuota, FALSE),
                         [i \in 1..Len(rows) |-> [t |-> "row", v |-> rows[i]]])).fd

\* the rows of a CSV part under another header
Retitled(rows) ==
    IF rows = <<>> THEN CsvFileOf(<<OtherHeader.v>>)
    ELSE CsvFileOf(<<OtherHeader.v>> \o Tail(rows))

JoinFaults == {"missing", "torn", "retitled"}

\* the part file as the fault of the configuration leaves it
Tampered(bytes) ==
    IF cfg.fault.kind = "missing" \/ bytes = Absent THEN Absent
    ELSE IF cfg.fault.kind = "torn" THEN SubSeq(bytes, 1, Len(bytes) - 1)
    ELSE Retitled(ReadAll(OpenFile(bytes), <<>>))

\* between Split and Join a part file is removed, loses its last byte or is
\* written again under another header
Tamper ==
    /\ pc = "split" /\ sp.pc = "returned" /\ sp.ret.err = Nil
    /\ cfg.fault.kind \in JoinFaults
    /\ pc' = "tampered"
    /\ files' = [files EXCEPT !.part[cfg.fault.part] = Tampered(@)]
    /\ UNCHANGED <<cfg, w, wlog, rd, rlog, sp, jn, csv>>

\* the caller joins the parts that a Split without error returned
J_Start ==
    /\ sp.pc = "returned" /\ sp.ret.err = Nil
    /\ pc = IF cfg.fault.kind \in JoinFaults THEN "tampered" ELSE "split"
    /\ jn.pc = "idle"
    /\ JoinBecomes(JoinStart([jn EXCEPT !.files = files]))

\* the next part is opened (and its CSV header read)
J_Open ==
    /\ jn.pc = "part" /\ jn.i <= Len(sp.ret.parts)
    /\ JoinBecomes(CASE cfg.fmt = "json" ->
                            JoinJsonFiles_Open([jn EXCEPT !.files = files], sp.ret.parts[jn.i])
                      [] cfg.fmt = "proto" ->
                            JoinProtoFiles_Open([jn EXCEPT !.files = files], sp.ret.parts[jn.i])
                      [] cfg.fmt = "csv" ->
                            JoinCsvFiles_Open([jn EXCEPT !.files = files], sp.ret.parts[jn.i]))

\* one record is read from the part and written to the output, or the part
\* is over
J_Copy ==
    /\ jn.pc = "copy"
    /\ JoinBecomes(CASE cfg.fmt = "json" -> JoinJsonFiles_Copy([jn EXCEPT !.files = files])
                     [] cfg.fmt = "proto" -> JoinProtoFiles_Copy([jn EXCEPT !.files = files])
                     [] cfg.fmt = "csv" -> JoinCsvFiles_Copy([jn EXCEPT !.files = files]))

\* no part is left: return nil
J_Finish ==
    /\ jn.pc = "part" /\ jn.i > Len(sp.ret.parts)
    /\ JoinBecomes(JoinReturn([jn EXCEPT !.files = files], Nil))

NextSplit ==
    \/ S_Open
    \/ S_Read
    \/ S_Rotate
    \/ S_Write
    \/ S_Finish
    \/ Tamper
    \/ J_Start
    \/ J_Open
    \/ J_Copy
    \/ J_Finish

SpecSplit == InitSplit /\ [][NextSplit]_vars

----------------------------------------------------------------------------
(* Properties of Split and Join (SpecSplit) *)

AllOf(r) == IF r.openErr # Nil THEN <<>> ELSE ReadAll(r, <<>>)

\* the record sequence of a file, a CSV file's header row dropped
RecordsIn(bytes) ==
    IF cfg.fmt = "csv" /\ AllOf(OpenFile(bytes)) # <<>> THEN Tail(AllOf(OpenFile(bytes)))
    ELSE AllOf(OpenFile(bytes))

RECURSIVE ConcatParts(_)
\* the record sequences of the parts, in list order
ConcatParts(parts) ==
    IF parts = <<>> THEN <<>>
    ELSE RecordsIn(files.part[parts[1]]) \o ConcatParts(Tail(parts))

\* the records of the input, as a reader of the format yields them
InputRecords ==
    [i \in 1..Len(cfg.recs) |->
        IF cfg.recs[i].t = "obj" THEN Marshal(cfg.recs[i].v) ELSE cfg.recs[i].v]

SplitReturned == pc = "split" /\ sp.pc = "returned"

\* C1: when nothing fails, Join of the parts that Split returned writes an
\* output file with the bytes of the input file, for every format, every
\* record sequence (the empty one too) and every limit.
C1_JoinOfSplitIsIdentity ==
    (SplitReturned /\ jn.pc = "returned" /\ cfg.fault.kind = "none") => files.out = files.in

\* C2: after a Split that returned no error, the records of the returned
\* parts, in list order and without the CSV headers, are the records of the
\* input: none lost, none twice, none out of order.
C2_SplitKeepsTheRecords ==
    (SplitReturned /\ sp.ret.err = Nil) => ConcatParts(sp.ret.parts) = InputRecords

Ceil(n, l) == (n + l - 1) \div l

\* C3: a Split of N records with limit L that returned no error returns
\* ceil(N/L) parts, each with L records but the last, which has the rest
\* (between 1 and L), so no part is empty.
C3_SplitMakesCeilParts ==
    (SplitReturned /\ sp.ret.err = Nil) =>
        /\ Len(sp.ret.parts) = Ceil(Len(cfg.recs), cfg.limit)
        /\ \A i \in 1..Len(sp.ret.parts) :
              Len(RecordsIn(files.part[sp.ret.parts[i]]))
                 = IF i < Len(sp.ret.parts) THEN cfg.limit
                   ELSE Len(cfg.recs) - (Len(sp.ret.parts) - 1) * cfg.limit

\* C4: a Split in which creating a part or a write to a part failed returns
\* no part and an error, and none of its part files is left on the disk.
C4_SplitIsAllOrNothing ==
    (SplitReturned /\ sp.failed # "none") =>
        /\ sp.ret.parts = <<>>
        /\ sp.ret.err # Nil
        /\ \A k \in DOMAIN files.part : files.part[k] = Absent

----------------------------------------------------------------------------
(* Properties of Join (SpecSplit) *)

JoinReturned == jn.pc = "returned"

\* C11: a Join that returned no error has written to the output file the
\* records of the parts, part after part in list order, each part's records
\* in their order, none dropped and none twice (CSV: the data rows, after
\* the header).
C11_JoinConcatenatesTheParts ==
    (JoinReturned /\ jn.ret = Nil) => RecordsIn(files.out) = ConcatParts(sp.ret.parts)

\* C12: a part that cannot be opened, a read of a part that fails with an
\* error other than the end of the stream, and a write to the output that
\* fails, each ends the Join at once with an error: no further part is
\* opened and nil is not returned.
C12_JoinAbortsOnFirstFailure ==
    jn.failed # "none" => (JoinReturned /\ jn.ret # Nil)

----------------------------------------------------------------------------
(* Properties of the CSV header in Split and Join (SpecSplit) *)

\* the rows of a CSV file, the header row included
RowsIn(bytes) == AllOf(OpenFile(bytes))

\* the disk under the parts takes every byte
PartsDiskGood == ~(cfg.fault.kind = "quota" /\ cfg.fault.part # 0)

\* the part files that are on the disk
PartsOnDisk == {k \in DOMAIN files.part : files.part[k] # Absent}

\* C13: SplitCsvFile takes the first row of the input for the header; when
\* it has returned, every part it created starts with that header row,
\* holds at most limit data rows after it, and has the header among its
\* data rows nowhere.
C13_EveryPartStartsWithTheHeader ==
    (SplitReturned /\ cfg.fmt = "csv" /\ PartsDiskGood) =>
        /\ sp.header = CsvHeader.v
        /\ \A k \in PartsOnDisk :
              /\ RowsIn(files.part[k]) # <<>>
              /\ Head(RowsIn(files.part[k])) = CsvHeader.v
              /\ Len(Tail(RowsIn(files.part[k]))) <= cfg.limit
              /\ CsvHeader.v \notin Range(Tail(RowsIn(files.part[k])))

\* a Split with limit 2 has made a full part (header and two data rows) and
\* a second part
C13_Witness ==
    /\ SplitReturned /\ cfg.fmt = "csv" /\ PartsDiskGood
    /\ cfg.limit = 2
    /\ Len(sp.ret.parts) = 2
    /\ Len(RowsIn(files.part[1])) = 3
    /\ Len(RowsIn(files.part[2])) = 2

\* the output of Join is on a disk that takes every byte
OutDiskGood == ~(cfg.fault.kind = "quota" /\ cfg.fault.part = 0)

\* C14: a JoinCsvFiles of at least one part that returned no error has
\* written one header row, the first row of the first part, as the first
\* row of the output; the first row of a later part, the same or not, is
\* not in the output, which goes on with the data rows of the parts.
C14_JoinWritesTheFirstHeaderOnce ==
    (JoinReturned /\ cfg.fmt = "csv" /\ OutDiskGood /\ jn.ret = Nil /\ sp.ret.parts # <<>>) =>
        /\ RowsIn(files.out) # <<>>
        /\ Head(RowsIn(files.out)) = Head(RowsIn(files.part[sp.ret.parts[1]]))
        /\ Tail(RowsIn(files.out)) = ConcatParts(sp.ret.parts)

\* two parts with data rows and with different headers were joined
C14_Witness ==
    /\ JoinReturned /\ cfg.fmt = "csv" /\ OutDiskGood /\ jn.ret = Nil
    /\ Len(sp.ret.parts) = 2
    /\ Head(RowsIn(files.part[1])) # Head(RowsIn(files.part[2]))
    /\ Len(RowsIn(files.part[1])) > 1
    /\ Len(RowsIn(files.part[2])) > 1
    /\ Len(RowsIn(files.out)) = Len(RowsIn(files.part[1])) + Len(RowsIn(files.part[2])) - 1

----------------------------------------------------------------------------
(* Scenario SpecProc: a CSV writer built with value processors writes one  *)
(* row and is closed; a CSV reader built with value processors reads the   *)
(* bytes back.                                                             *)

\* the largest number of fields of a row, the row of the test apart
MaxFields == 2

\* "", " ", " 1 ", "null", "#", "a,"
ProcFields ==
    {<<>>, <<Space>>, <<Space, 49, Space>>, <<110, 117, 108, 108>>, <<Hash>>, <<97, Comma>>}

\* the row of the test: " 123 ", "", " ", "null", "NaN"
PandasRow ==
    <<<<Space, 49, 50, 51, Space>>, <<>>, <<Space>>, <<110, 117, 108, 108>>, <<78, 97, 78>>>>

ProcRows == (SeqsUpTo(ProcFields, MaxFields) \ {<<>>}) \cup {PandasRow}

\* the processors a caller registers, in registration order
ProcessorLists ==
    {<<>>, <<"TrimSpace", "PandasFriendly">>, <<"PandasFriendly", "TrimSpace">>,
     <<"TrimSpace", "RemoveHash">>}

ProcConfigs ==
    [cls : {"csvStream", "csvFile"}, gz : BOOLEAN,
     wprocs : ProcessorLists, rprocs : ProcessorLists]

\* valueProcessors ...fs.CsvValueProcessor: nil when the caller passes none
Variadic(processors) == IF processors = <<>> THEN Nil ELSE processors

\* NewCsvStream(fw, withGzip, valueProcessors...), NewCsvFile(filePath, valueProcessors...)
NewCsvWriter(cls, gz, processors) ==
    [NewWriter(cls, gz, DefaultBufferSize, NoQuota, FALSE) EXCEPT !.procs = Variadic(processors)]

\* OpenCsvStream(fr, withGzip, valueProcessors...), OpenCsvFile(filePath, valueProcessors...)
OpenCsvReader(cls, gz, bytes, processors) ==
    [NewReader(cls, gz, bytes, FALSE) EXCEPT !.procs = Variadic(processors)]

InitProc ==
    /\ cfg \in ProcConfigs
    /\ pc = "writing"
    /\ w = NewCsvWriter(cfg.cls, cfg.gz, cfg.wprocs)
    /\ wlog = [recs |-> <<>>, closeRet |-> Nil]
    /\ rd = Nil
    /\ rlog = <<>>
    /\ files = Nil
    /\ sp = Nil
    /\ jn = Nil
    /\ csv = Nil

\* Write(values...) of the row
P_Write ==
    /\ pc = "writing"
    /\ wlog.recs = <<>>
    /\ \E row \in ProcRows : Written(csvWrite(w, row), [t |-> "row", v |-> row])
    /\ UNCHANGED <<cfg, pc, rd, rlog, files, sp, jn, csv>>

\* Close() of the writer
P_Close ==
    /\ pc = "writing"
    /\ wlog.recs # <<>>
    /\ Closed(WriterClose(w))
    /\ pc' = "closed"
    /\ UNCHANGED <<cfg, rd, rlog, files, sp, jn, csv>>

\* the reader is opened over the bytes written
P_Open ==
    /\ pc = "closed"
    /\ rd' = OpenCsvReader(cfg.cls, cfg.gz, w.fd, cfg.rprocs)
    /\ pc' = "reading"
    /\ UNCHANGED <<cfg, w, wlog, rlog, files, sp, jn, csv>>

\* Read() of the reader: the row, then the end of the stream
P_Read ==
    /\ pc = "reading"
    /\ Len(rlog) < 2
    /\ HasRead(csvRead(rd))
    /\ UNCHANGED <<cfg, pc, w, wlog, files, sp, jn, csv>>

\* Close() of the reader
P_ReaderClose ==
    /\ pc = "reading"
    /\ Len(rlog) = 2
    /\ rd' = ReaderClose(rd)
    /\ pc' = "done"
    /\ UNCHANGED <<cfg, w, wlog, rlog, files, sp, jn, csv>>

NextProc ==
    \/ P_Write
    \/ P_Close
    \/ P_Open
    \/ P_Read
    \/ P_ReaderClose

SpecProc == InitProc /\ [][NextProc]_vars

----------------------------------------------------------------------------
(* Properties of the value processors (SpecProc) *)

\* B(A(v)) for the processors [A, B], A(v) for [A], v for none
Composed(processors, v) ==
    IF processors = <<>> THEN v
    ELSE IF Len(processors) = 1 THEN Process(processors[1], v)
    ELSE Process(processors[2], Process(processors[1], v))

\* the row that was written
RowWritten == wlog.recs[1].rec.v

\* what csv.Reader makes of the bytes written, before any processor
RawRead == readRecord(NewReader(cfg.cls, cfg.gz, w.fd, FALSE))

\* the result e of a Read, given the result raw of the csv.Reader below it
ProcessedOnRead(raw, e) ==
    IF raw.ret # Nil THEN e.err = raw.ret
    ELSE /\ e.err = Nil
         /\ Len(e.out) = Len(raw.out)
         /\ \A i \in 1..Len(raw.out) : e.out[i] = Composed(cfg.rprocs, raw.out[i])

\* C15: the processors [A, B] of a CSV writer turn each field v of a row
\* into B(A(v)) before the row is encoded, those of a CSV reader turn each
\* parsed field v into B(A(v)) before Read returns the row; the fields keep
\* their number and order, and without processors they pass unchanged.
C15_ProcessorsInRegistrationOrder ==
    /\ pc \in {"closed", "reading", "done"} =>
          SinkPlain(w) = CsvLine([i \in 1..Len(RowWritten) |->
                                     Composed(cfg.wprocs, RowWritten[i])])
    /\ (pc \in {"reading", "done"} /\ rlog # <<>>) => ProcessedOnRead(RawRead, rlog[1])

\* a row with a blank field went through [PandasFriendly, TrimSpace] on
\* Write, where the order shows (the blank is stored as '', not as '#'),
\* and was read back through [TrimSpace, RemoveHash]
C15_Witness ==
    /\ pc = "done"
    /\ cfg.wprocs = <<"PandasFriendly", "TrimSpace">>
    /\ cfg.rprocs = <<"TrimSpace", "RemoveHash">>
    /\ RowWritten = <<<<Space>>, <<Space, 49, Space>>>>
    /\ SinkPlain(w) = <<Comma, 49, NL>>
    /\ rlog[1].err = Nil
    /\ rlog[1].out = <<<<>>, <<49>>>>

\* what [TrimSpace, PandasFriendly] stores for the field v
Stored(v) == IF TrimSpace(v) \in EmptyValues THEN <<Hash>> ELSE TrimSpace(v)

\* what [TrimSpace, RemoveHash] returns for the stored field
ReadBack(v) == IF Stored(v) = <<Hash>> THEN <<>> ELSE Stored(v)

\* the line 123,#,#,#,#
PandasLine == <<49, 50, 51, Comma, Hash, Comma, Hash, Comma, Hash, Comma, Hash, NL>>

\* C16: a row written through [TrimSpace, PandasFriendly] is stored with
\* '#' for every field whose trimmed value is one of EmptyValues and with
\* the trimmed value otherwise; read through [TrimSpace, RemoveHash] it
\* comes back with '' for every stored '#' and the stored value otherwise.
\* The row (" 123 ", "", " ", "null", "NaN") is stored as 123,#,#,#,# and
\* read back as ("123", "", "", "", "").
C16_PandasSentinelRoundTrip ==
    cfg.wprocs = <<"TrimSpace", "PandasFriendly">> =>
        /\ pc \in {"closed", "reading", "done"} =>
              /\ SinkPlain(w) = CsvLine([i \in 1..Len(RowWritten) |-> Stored(RowWritten[i])])
              /\ RowWritten = PandasRow => SinkPlain(w) = PandasLine
        /\ (pc = "done" /\ cfg.rprocs = <<"TrimSpace", "RemoveHash">>) =>
              /\ rlog[1].err = Nil
              /\ rlog[1].out = [i \in 1..Len(RowWritten) |-> ReadBack(RowWritten[i])]
              /\ RowWritten = PandasRow => rlog[1].out = <<<<49, 50, 51>>, <<>>, <<>>, <<>>, <<>>>>
              /\ rlog[2].err = EOF

\* the row of the test was written and read back
C16_Witness ==
    /\ pc = "done"
    /\ cfg.wprocs = <<"TrimSpace", "PandasFriendly">>
    /\ cfg.rprocs = <<"TrimSpace", "RemoveHash">>
    /\ RowWritten = PandasRow
    /\ SinkPlain(w) = PandasLine
    /\ Len(rlog) = 2

----------------------------------------------------------------------------
(* The header cursor csvFile, its records, and the standalone schema.  A   *)
(* Go map is a function on its keys; positions count from 0.               *)

\* make(map[string]int), make(map[string]string)
EmptyMap == [k \in {} |-> 0]

\* m[key] = val
Put(m, key, val) == [k \in DOMAIN m \cup {key} |-> IF k = key THEN val ELSE m[k]]

RECURSIVE indexLoop(_, _, _)
\* for i, name := range header { index[name] = i }, from the i-th name on
indexLoop(header, i, index) ==
    IF i > Len(header) THEN index
    ELSE indexLoop(header, i + 1, Put(index, header[i], i - 1))

\* newCsvFile(header, reader); the reader is the one of the state
newCsvFile(header) == [header |-> header, index |-> indexLoop(header, 1, EmptyMap)]

\* csvFile.Header(), csvFile.Index()
csvFile_Header(f) == f.header
csvFile_Index(f) == f.index

\* the end of ReadHeader: h is the reader after its Read
ReadHeaderDone(h) ==
    IF h.ret # Nil THEN [reader |-> h, file |-> None, err |-> h.ret]
    ELSE [reader |-> h, file |-> newCsvFile(h.out), err |-> Nil]

\* csvFileReader.ReadHeader
csvFileReader_ReadHeader(r) == ReadHeaderDone(csvRead(r))

\* the end of Next: n is the reader after its Read
NextDone(f, n) ==
    IF n.ret # Nil THEN [reader |-> n, record |-> None, err |-> n.ret]
    ELSE [reader |-> n, record |-> [record |-> n.out, file |-> f], err |-> Nil]

\* csvFile.Next
csvFile_Next(f, r) == NextDone(f, csvRead(r))

\* a Field that returns '' where the default is due
csvRecord_FieldOrEmpty(r, name, def) ==
    IF name \in DOMAIN r.file.index
    THEN IF r.file.index[name] >= 0 /\ r.file.index[name] < Len(r.record)
         THEN r.record[r.file.index[name] + 1] ELSE <<>>
    ELSE <<>>

\* csvRecord.Field
csvRecord_Field(r, name, def) ==
    IF name \in DOMAIN r.file.index
    THEN IF r.file.index[name] >= 0 /\ r.file.index[name] < Len(r.record)
         THEN r.record[r.file.index[name] + 1] ELSE def
    ELSE def

RECURSIVE fieldsLoop(_, _, _, _)
\* for i, val := range record { ...; m[name] = val }, from the i-th value on
fieldsLoop(record, header, i, m) ==
    IF i > Len(record) THEN m
    ELSE fieldsLoop(record, header, i + 1,
                    Put(m, IF i - 1 < Len(header) THEN header[i] ELSE <<>>, record[i]))

\* csvRecord.Record(), csvRecord.Fields()
csvRecord_Record(r) == r.record
csvRecord_Fields(r) == fieldsLoop(r.record, r.file.header, 1, EmptyMap)

\* NewCsvSchema(header)
NewCsvSchema(header) == [header |-> header, index |-> indexLoop(header, 1, EmptyMap)]

\* csvSchema.Record(record)
csvSchema_Record(schema, record) == [record |-> record, schema |-> schema]

\* csvSchemaRecord.Field
csvSchemaRecord_Field(r, name, def) ==
    IF name \in DOMAIN r.schema.index
    THEN IF r.schema.index[name] >= 0 /\ r.schema.index[name] < Len(r.record)
         THEN r.record[r.schema.index[name] + 1] ELSE def
    ELSE def

RECURSIVE fieldsFirstWins(_, _, _, _)
\* a Fields that keeps the first value of a name
fieldsFirstWins(record, header, i, m) ==
    IF i > Len(record) THEN m
    ELSE IF (IF i - 1 < Len(header) THEN header[i] ELSE <<>>) \in DOMAIN m
    THEN fieldsFirstWins(record, header, i + 1, m)
    ELSE fieldsFirstWins(record, header, i + 1,
                         Put(m, IF i - 1 < Len(header) THEN header[i] ELSE <<>>, record[i]))

csvSchemaRecord_FieldsFirstWins(r) == fieldsFirstWins(r.record, r.schema.header, 1, EmptyMap)

\* csvSchemaRecord.Record(), csvSchemaRecord.Fields()
csvSchemaRecord_Record(r) == r.record
csvSchemaRecord_Fields(r) == fieldsLoop(r.record, r.schema.header, 1, EmptyMap)

----------------------------------------------------------------------------
(* Scenario SpecCursor: a CSV file of a header row and rows, written by    *)
(* the CSV file writer, is opened; the caller builds a schema from the     *)
(* column list it knows, reads the header and then the rows with Next.     *)

\* the largest number of columns of a row, and of rows after the header
MaxCols == 2
MaxCursorRows == 2

\* the column names, which are the values of the rows too: a, b
ColumnNames == {<<97>>, <<98>>}

CursorRowSet == SeqsUpTo(ColumnNames, MaxCols) \ {<<>>}

\* the rows of the file, the header first; no row at all is the empty file
CursorConfigs ==
    [gz : BOOLEAN, size : {DefaultBufferSize}, rows : SeqsUpTo(CursorRowSet, MaxCursorRows + 1)]

\* the column list the caller knows: the header of the file
KnownColumns == IF cfg.rows = <<>> THEN <<<<97>>, <<98>>>> ELSE cfg.rows[1]

InitCursor ==
    /\ cfg \in CursorConfigs
    /\ pc = "opened"
    /\ rd = OpenCsvReader("csvFile", cfg.gz, CsvFileOf(cfg.rows), <<>>)
    /\ rlog = <<>>
    /\ csv = [schema |-> None, file |-> None, record |-> None]
    /\ w = Nil
    /\ wlog = Nil
    /\ files = Nil
    /\ sp = Nil
    /\ jn = Nil

\* schema := fs.NewCsvSchema(header)
K_NewCsvSchema ==
    /\ pc = "opened"
    /\ csv' = [csv EXCEPT !.schema = NewCsvSchema(KnownColumns)]
    /\ pc' = "schema"
    /\ UNCHANGED <<cfg, w, wlog, rd, rlog, files, sp, jn>>

\* the call returned x: the reader and the objects of the caller after it
Returned(op, x, out) ==
    /\ rd' = x.reader
    /\ rlog' = Append(rlog, [op |-> op, out |-> out, err |-> x.err])

\* file, err := reader.ReadHeader()
HeaderRead(x) ==
    /\ Returned("ReadHeader", x, IF x.err = Nil THEN x.file.header ELSE Nil)
    /\ csv' = [csv EXCEPT !.file = x.file]
    /\ pc' = IF x.err = Nil THEN "cursor" ELSE "failed"

K_ReadHeader ==
    /\ pc = "schema"
    /\ HeaderRead(csvFileReader_ReadHeader(rd))
    /\ UNCHANGED <<cfg, w, wlog, files, sp, jn>>

\* record, err := file.Next()
RecordRead(x) ==
    /\ Returned("Next", x, IF x.err = Nil THEN x.record.record ELSE Nil)
    /\ csv' = [csv EXCEPT !.record = x.record]

\* one call more than the file has rows is made
K_Next ==
    /\ pc = "cursor"
    /\ Len(rlog) <= Len(cfg.rows)
    /\ RecordRead(csvFile_Next(csv.file, rd))
    /\ UNCHANGED <<cfg, pc, w, wlog, files, sp, jn>>

\* reader.Close()
K_Close ==
    /\ pc \in {"cursor", "failed"}
    /\ pc = "cursor" => Len(rlog) > Len(cfg.rows)
    /\ rd' = ReaderClose(rd)
    /\ pc' = "done"
    /\ UNCHANGED <<cfg, w, wlog, rlog, files, sp, jn, csv>>

NextCursor ==
    \/ K_NewCsvSchema
    \/ K_ReadHeader
    \/ K_Next
    \/ K_Close

SpecCursor == InitCursor /\ [][NextCursor]_vars

----------------------------------------------------------------------------
(* Properties of the header cursor and the schema, under SpecCursor *)

\* the names and defaults a caller asks with: a, b, c and '' ; '' and d
ProbeNames == ColumnNames \cup {<<99>>, <<>>}
ProbeDefaults == {<<>>, <<100>>}

\* the rows a caller hands to a schema: shorter and longer than the header too
ProbeRows == SeqsUpTo(ColumnNames, MaxCols + 1)

\* the position, from 1, of the last column called name; 0 when none is
LastPos(header, name) ==
    IF \E i \in 1..Len(header) : header[i] = name
    THEN CHOOSE i \in 1..Len(header) :
             header[i] = name /\ \A j \in (i + 1)..Len(header) : header[j] # name
    ELSE 0

\* what Field owes: the value at the position of the name, or the default
FieldOwed(header, row, name, def) ==
    IF LastPos(header, name) \in 1..Len(row) THEN row[LastPos(header, name)] ELSE def

CursorHasRecord == csv.file # None /\ csv.record # None

\* C17: the record of a cursor, and the record a schema makes of any row,
\* answer Field(name, default) with the row's value at the position recorded
\* for the name when the row reaches that position, and with the default
\* when the name is no column or the row is shorter.
C17_FieldReturnsValueOrDefault ==
    /\ CursorHasRecord =>
           \A name \in ProbeNames : \A def \in ProbeDefaults :
               csvRecord_Field(csv.record, name, def)
                   = FieldOwed(csvFile_Header(csv.file), csvRecord_Record(csv.record), name, def)
    /\ csv.schema # None =>
           \A row \in ProbeRows : \A name \in ProbeNames : \A def \in ProbeDefaults :
               csvSchemaRecord_Field(csvSchema_Record(csv.schema, row), name, def)
                   = FieldOwed(csv.schema.header, row, name, def)

\* a record of a cursor over the header a,b answers b with its second value
\* and c with the default; the schema answers b with the default for a row
\* of one value
C17_Witness ==
    /\ CursorHasRecord
    /\ csv.file.header = <<<<97>>, <<98>>>>
    /\ csv.record.record = <<<<98>>, <<97>>>>
    /\ csvRecord_Field(csv.record, <<98>>, <<100>>) = <<97>>
    /\ csvRecord_Field(csv.record, <<99>>, <<100>>) = <<100>>
    /\ csvSchemaRecord_Field(csvSchema_Record(csv.schema, <<<<97>>>>), <<98>>, <<100>>) = <<100>>

\* what ReadHeader owes: the first row as Header(), every column name mapped
\* to its position, and, for a file of no row, end-of-stream and no cursor
HeaderOwed ==
    IF cfg.rows = <<>> THEN rlog[1].err = EOF /\ csv.file = None
    ELSE /\ rlog[1].err = Nil
         /\ csv.file # None
         /\ csvFile_Header(csv.file) = cfg.rows[1]
         /\ \A i \in 1..Len(cfg.rows[1]) :
                csvFile_Index(csv.file)[csvFile_Header(csv.file)[i]] = i - 1

\* what the call after k - 1 calls owes: the k-th row of the file, or
\* end-of-stream behind the last row
RowOwed(k) ==
    IF k <= Len(cfg.rows) THEN rlog[k].err = Nil /\ rlog[k].out = cfg.rows[k]
    ELSE rlog[k].err = EOF

\* C18: ReadHeader reads one row, its cursor has that row as Header() and
\* Index()[Header()[i]] = i for every i, every Next returns the next row of
\* the file, in order, the one behind the last row end-of-stream; on a file
\* of no row ReadHeader returns end-of-stream and no cursor.
C18_ReadHeaderThenRowsInOrder ==
    \A k \in 1..Len(rlog) : IF k = 1 THEN HeaderOwed ELSE RowOwed(k)

\* the record the cursor makes of a row, &csvRecord{record, r}, and the one
\* the schema of the caller makes of it
CursorRecord(row) == [record |-> row, file |-> csv.file]
SchemaRecord(row) == csvSchema_Record(csv.schema, row)

\* the two records of a row answer alike
SameLookups(row) ==
    /\ \A name \in ProbeNames : \A def \in ProbeDefaults :
           csvSchemaRecord_Field(SchemaRecord(row), name, def)
               = csvRecord_Field(CursorRecord(row), name, def)
    /\ csvSchemaRecord_Fields(SchemaRecord(row)) = csvRecord_Fields(CursorRecord(row))

\* C19: the schema built by NewCsvSchema from a header and the cursor that
\* read the same header from a file give the same Field(name, default) and
\* the same Fields(), for the record the cursor returned and for every row.
C19_SchemaAndCursorLookupAlike ==
    (csv.file # None /\ csv.schema # None /\ csv.schema.header = csvFile_Header(csv.file)) =>
        /\ csv.record # None =>
               /\ csv.record = CursorRecord(csvRecord_Record(csv.record))
               /\ SameLookups(csvRecord_Record(csv.record))
        /\ \A row \in ProbeRows : SameLookups(row)

\* over the header a,a the cursor returned the row a,b: both records answer
\* a with b, and their Fields() are the one-entry map a -> b
C19_Witness ==
    /\ CursorHasRecord
    /\ csv.schema.header = <<<<97>>, <<97>>>>
    /\ csv.file.header = <<<<97>>, <<97>>>>
    /\ csv.record.record = <<<<97>>, <<98>>>>
    /\ csvRecord_Field(csv.record, <<97>>, <<>>) = <<98>>
    /\ csvSchemaRecord_Field(SchemaRecord(csv.record.record), <<97>>, <<>>) = <<98>>
    /\ DOMAIN csvSchemaRecord_Fields(SchemaRecord(csv.record.record)) = {<<97>>}
    /\ csvRecord_Fields(csv.record)[<<97>>] = <<98>>

\* the Field and the Fields() of the schema record of the row agree on name
FieldIsInFields(row, name) ==
    name \in DOMAIN csvSchemaRecord_Fields(SchemaRecord(row)) =>
        \A def \in ProbeDefaults :
            csvSchemaRecord_Field(SchemaRecord(row), name, def)
                = csvSchemaRecord_Fields(SchemaRecord(row))[name]

\* C29: for every header (repeated column names too), every row of any
\* length and every column name n of the header: if Fields() of the schema
\* record of the row has the key n, Field(n, def) returns Fields()[n].
C29_FieldAgreesWithFields ==
    csv.schema # None =>
        \A row \in ProbeRows : \A name \in Range(csv.schema.header) : FieldIsInFields(row, name)

----------------------------------------------------------------------------
(* Scenario SpecPath: a file writer made for a path and a stream writer    *)
(* made with a compression flag take the same records and are closed; the  *)
(* file is then opened through the same path and read to its end.         *)

\* the suffix '.gz'
GzSuffix == <<Dot, 103, 122>>

\* strings.HasSuffix(s, suffix)
HasSuffix(str, suffix) ==
    Len(str) >= Len(suffix) /\ SubSeq(str, Len(str) - Len(suffix) + 1, Len(str)) = suffix

StreamClass(fmt) ==
    CASE fmt = "json" -> "jsonStream"
      [] fmt = "proto" -> "protoStream"
      [] fmt = "csv" -> "csvStream"

\* NewJsonFile(filePath), NewProtoFile(filePath), NewCsvFile(filePath)
NewFileWriter(fmt, filePath, size) ==
    NewWriter(FileClass(fmt), HasSuffix(filePath, GzSuffix), size, NoQuota, FALSE)

\* NewJsonStream(fd, withGzip), NewProtoStream(fd, withGzip), NewCsvStream(fw, withGzip)
NewStreamWriter(fmt, withGzip, size) == NewWriter(StreamClass(fmt), withGzip, size, NoQuota, FALSE)

\* OpenJsonFile(filePath), OpenProtoFile(filePath), OpenCsvFile(filePath):
\* fd.Name() is the path the file was opened with
OpenFileReader(fmt, filePath, bytes) ==
    NewReader(FileClass(fmt), HasSuffix(filePath, GzSuffix), bytes, FALSE)

\* the paths: a, a.gz, .gza, gz, .gz
Paths == {<<97>>, <<97, Dot, 103, 122>>, <<Dot, 103, 122, 97>>, <<103, 122>>, <<Dot, 103, 122>>}

PathConfigs ==
    [cls : {"jsonFile", "protoFile", "csvFile"}, path : Paths, withGzip : BOOLEAN,
     size : BufferSizes]

InitPath ==
    /\ cfg \in PathConfigs
    /\ pc = "writing"
    /\ w = [file |-> NewFileWriter(FormatOf(cfg.cls), cfg.path, cfg.size),
            stream |-> NewStreamWriter(FormatOf(cfg.cls), cfg.withGzip, cfg.size)]
    /\ wlog = [recs |-> <<>>, closeRet |-> Nil]
    /\ files = [path |-> cfg.path, bytes |-> Absent]
    /\ rd = Nil
    /\ rlog = <<>>
    /\ sp = Nil
    /\ jn = Nil
    /\ csv = Nil

\* the records of a format
RecordsOf(fmt) ==
    CASE fmt = "json" -> JsonObjects \cup JsonRaws
      [] fmt = "proto" -> ProtoMessages
      [] fmt = "csv" -> CsvRows

\* both writers after the call; the error of the file writer is recorded
BothWritten(f, s, rec) ==
    /\ w' = [file |-> f, stream |-> s]
    /\ wlog' = [wlog EXCEPT !.recs = Append(@, [rec |-> rec, err |-> f.ret])]

\* the same Write (WriteRaw) on the file writer and on the stream writer
G_Write ==
    /\ pc = "writing"
    /\ Len(wlog.recs) < MaxRecs
    /\ \E rec \in RecordsOf(FormatOf(cfg.cls)) :
           BothWritten(WriteOf(w.file, rec), WriteOf(w.stream, rec), rec)
    /\ UNCHANGED <<cfg, pc, rd, rlog, files, sp, jn, csv>>

\* both writers after Close; the file holds what reached the descriptor
BothClosed(f, s) ==
    /\ w' = [file |-> f, stream |-> s]
    /\ wlog' = [wlog EXCEPT !.closeRet = f.ret]
    /\ files' = [files EXCEPT !.bytes = f.fd]

\* Close() of the file writer and of the stream writer
G_Close ==
    /\ pc = "writing"
    /\ BothClosed(WriterClose(w.file), WriterClose(w.stream))
    /\ pc' = "closed"
    /\ UNCHANGED <<cfg, rd, rlog, sp, jn, csv>>

\* the file is opened through the path it was written through
G_Open ==
    /\ pc = "closed"
    /\ rd' = OpenFileReader(FormatOf(cfg.cls), files.path, files.bytes)
    /\ pc' = "reading"
    /\ UNCHANGED <<cfg, w, wlog, rlog, files, sp, jn, csv>>

\* one read call; one call more than there were records is made
G_Read ==
    /\ pc = "reading"
    /\ rd.openErr = Nil
    /\ Len(rlog) <= Len(wlog.recs)
    /\ HasRead(ReadOf(rd, Len(rlog) + 1))
    /\ UNCHANGED <<cfg, pc, w, wlog, files, sp, jn, csv>>

\* Close() of the reader
G_ReaderClose ==
    /\ pc = "reading"
    /\ rd.openErr = Nil
    /\ Len(rlog) = Len(wlog.recs) + 1
    /\ rd' = ReaderClose(rd)
    /\ pc' = "done"
    /\ UNCHANGED <<cfg, w, wlog, rlog, files, sp, jn, csv>>

NextPath ==
    \/ G_Write
    \/ G_Close
    \/ G_Open
    \/ G_Read
    \/ G_ReaderClose

SpecPath == InitPath /\ [][NextPath]_vars

----------------------------------------------------------------------------
(* Properties of the two API families, under SpecPath *)

\* the path ends in the three characters . g z
EndsInDotGz(path) ==
    /\ Len(path) >= 3
    /\ path[Len(path) - 2] = Dot /\ path[Len(path) - 1] = 103 /\ path[Len(path)] = 122

\* the bytes begin as a gzip stream does
IsGzipStream(bytes) == bytes # <<>> /\ bytes[1] = GzMagic

\* the file was written compressed exactly if its path ends in '.gz', the
\* stream exactly if the flag was set
SelectedByPathAndFlag ==
    /\ IsGzipStream(w.file.fd) <=> EndsInDotGz(cfg.path)
    /\ IsGzipStream(w.stream.fd) <=> cfg.withGzip

\* the two writers made the same bytes of the same calls
SameFraming ==
    (EndsInDotGz(cfg.path) <=> cfg.withGzip) => w.file.fd = w.stream.fd

\* the file is opened through its path without error, and read to its end it
\* gives the records written, in order, and then end-of-stream
ReadableThroughPath ==
    /\ pc \in {"reading", "done"} => rd.openErr = Nil
    /\ pc = "done" =>
           /\ Len(rlog) = Len(wlog.recs) + 1
           /\ \A i \in 1..Len(wlog.recs) :
                 rlog[i].err = Nil /\ rlog[i].out = wlog.recs[i].rec.v
           /\ rlog[Len(rlog)].err = EOF

\* C20: a file writer compresses exactly if its path ends in '.gz' and a
\* stream writer exactly if its flag is set; after the same Writes and Close
\* a file writer on a path without the suffix and a stream writer with the
\* flag unset have produced the same bytes (and so have the two with gzip);
\* and the file is readable through the path it was written through.
C20_SuffixAndFlagSelectSameFraming ==
    pc # "writing" => SelectedByPathAndFlag /\ SameFraming /\ ReadableThroughPath

----------------------------------------------------------------------------
(* Scenario SpecSplitAny: Split and Join as in SpecSplit, for every limit   *)
(* (zero and negative ones too) and over inputs that no writer of the      *)
(* package left as they are: cut short, without a CSV header row, or with  *)
(* a last line that no newline ends.                                       *)

\* the least limit a caller passes
MinLimit == 0 - 1

\* the input is as its writer left it (whole); it has lost its last byte
\* (torn); it is a CSV file whose writer wrote no header row (bare); it is a
\* gzip file of JSON lines whose last line has no newline (open); it has a
\* '.gz' name and the content of a plain file (junk)
InputKinds(fmt, gz) ==
    {"whole", "torn"}
    \cup (IF fmt = "csv" THEN {"bare"} ELSE {})
    \cup (IF fmt = "json" /\ gz THEN {"open"} ELSE {})
    \cup (IF gz THEN {"junk"} ELSE {})

SplitAnyConfigs ==
    UNION {[fmt : {fmt}, gz : {gz}, size : BufferSizes,
            recs : SeqsUpTo(SplitRecsOf(fmt), MaxSplitRecs),
            limit : MinLimit..MaxLimit, fault : FaultsOf(fmt),
            input : InputKinds(fmt, gz)] : fmt \in {"json", "proto", "csv"}, gz \in BOOLEAN}

DropLast(bytes) == SubSeq(bytes, 1, Len(bytes) - 1)

\* the input file of the configuration
AnyInputBytes(c) ==
    CASE c.input = "whole" -> InputBytes(c)
      [] c.input = "torn" -> DropLast(InputBytes(c))
      [] c.input = "bare" ->
            WriterClose(WriteAll(NewWriter("csvFile", c.gz, c.size, NoQuota, FALSE), c.recs)).fd
      [] c.input = "open" -> GzEncode(DropLast(InputBytes([c EXCEPT !.gz = FALSE])))
      [] c.input = "junk" -> InputBytes([c EXCEPT !.gz = FALSE])

InitSplitAny ==
    /\ cfg \in SplitAnyConfigs
    /\ pc = "split"
    /\ files = [in |-> AnyInputBytes(cfg), out |-> Absent,
                part |-> [k \in 1..MaxSplitRecs |-> Absent]]
    /\ sp = [pc |-> "start", reader |-> None, header |-> Nil, writer |-> None, cur |-> 0,
             parts |-> <<>>, partNum |-> 1, cnt |-> 0, err |-> Nil, berr |-> Nil,
             raw |-> Nil, failed |-> "none", ret |-> Nil, files |-> Nil,
             called |-> <<>>, iters |-> 0, readErr |-> Nil, ev |-> <<>>,
             unowned |-> FALSE]
    /\ jn = [pc |-> "idle", reader |-> None, writer |-> None, cur |-> 0, i |-> 0,
             err |-> Nil, failed |-> "none", ret |-> Nil, files |-> Nil,
             iters |-> 0, ev |-> <<>>, unowned |-> FALSE]
    /\ w = Nil
    /\ wlog = Nil
    /\ rd = Nil
    /\ rlog = Nil
    /\ csv = Nil

SpecSplitAny == InitSplitAny /\ [][NextSplit]_vars

----------------------------------------------------------------------------
(* Properties of Split and Join under SpecSplitAny *)

IsWriterOpened(e) == e.op = "open" /\ e.kind = "writer"

\* the numbers of the parts Split has created, in the order of creation
PartsMade == [i \in 1..Len(SelectSeq(sp.ev, IsWriterOpened)) |->
                 SelectSeq(sp.ev, IsWriterOpened)[i].of]

\* 1, 2, ..., n
UpTo(n) == [i \in 1..n |-> i]

\* C21 as stated: partFn is called with 1, 2, ..., k in this order, once
\* each, k the number of parts created; the open part is the one of the last
\* call; a Split that returns no error returns partFn(1), ..., partFn(k).
C21_PartFnCalledOncePerPartCreated ==
    /\ sp.called = UpTo(Len(PartsMade))
    /\ PartsMade = UpTo(Len(PartsMade))
    /\ sp.writer # None => sp.cur = Len(sp.called)
    /\ (sp.pc = "returned" /\ sp.ret.err = Nil) => sp.ret.parts = UpTo(Len(PartsMade))

\* the creation of the part that partFn was last called for has failed
LastCreateFailed ==
    cfg.fault.kind = "create" /\ sp.called # <<>> /\ cfg.fault.part = Len(sp.called)

\* C21 (amended): partFn is called with 1, 2, ..., n in this order, once
\* each, before the part is created: n is the number of parts created, plus
\* one when the creation of the last part failed; the parts created are
\* 1, ..., k; the open part is the one of the last call; a Split that
\* returns no error returns partFn(1), ..., partFn(k) for the k parts created.
C21_PartFnCalledOncePerCreation ==
    /\ sp.called = UpTo(Len(PartsMade) + (IF LastCreateFailed THEN 1 ELSE 0))
    /\ PartsMade = UpTo(Len(PartsMade))
    /\ sp.writer # None => sp.cur = Len(sp.called)
    /\ (sp.pc = "returned" /\ sp.ret.err = Nil) => sp.ret.parts = UpTo(Len(PartsMade))

\* a Split of two records with limit 1 has called partFn(1), partFn(2) and
\* returned both parts
C21_Witness ==
    /\ sp.pc = "returned" /\ sp.ret.err = Nil /\ cfg.limit = 1
    /\ sp.called = <<1, 2>>
    /\ PartsMade = <<1, 2>>
    /\ sp.ret.parts = <<1, 2>>

\* Split has returned and Join has not begun
SplitHasReturned == sp.pc = "returned" /\ jn.pc = "idle" /\ pc = "split"

\* C22: when a read of the input inside the loop of Split fails with an
\* error other than io.EOF, Split returns a non-nil error and no parts, and
\* no part it created is left on the disk.
C22_SplitAbortsOnReadError ==
    (SplitHasReturned /\ sp.readErr # Nil /\ sp.readErr # EOF) =>
        /\ sp.ret.err # Nil
        /\ sp.ret.parts = <<>>
        /\ \A k \in Range(PartsMade) : files.part[k] = Absent

\* the input holds no record: its writer wrote nothing (for CSV: no header
\* row either, or nothing but the header row)
InputHoldsNoRecord == cfg.recs = <<>> /\ cfg.input \in {"whole", "bare"}

\* C23: end-of-stream on the input ends Split without error wherever it
\* occurs: a Split whose loop was ended by io.EOF returns a nil error, and
\* the Split of an input that holds no record (a CSV file without a header
\* row too) returns a nil error and no parts and creates no part file.
C23_EndOfStreamEndsSplitWithoutError ==
    SplitHasReturned =>
        /\ sp.readErr = EOF => sp.ret.err = Nil
        /\ InputHoldsNoRecord =>
               /\ sp.ret = [parts |-> <<>>, err |-> Nil]
               /\ PartsMade = <<>>
               /\ \A k \in DOMAIN files.part : files.part[k] = Absent

\* the same reader or writer, opened
Opening(e) == [e EXCEPT !.op = "open"]
Closing(e) == [e EXCEPT !.op = "close"]

\* nothing is opened twice, and what is closed was opened before and is
\* closed once
PairedIn(ev) ==
    \A i \in 1..Len(ev) :
        /\ \A j \in 1..Len(ev) : ev[j] = ev[i] => j = i
        /\ ev[i].op = "close" => \E j \in 1..(i - 1) : ev[j] = Opening(ev[i])

\* the readers or writers (kind) open after the first n events
OpenAfter(ev, n, kind) ==
    {ev[i].of : i \in {k \in 1..n : /\ ev[k].op = "open" /\ ev[k].kind = kind
                                     /\ \A j \in (k + 1)..n : ev[j] # Closing(ev[k])}}

OneAtATime(ev, kind) == \A n \in 1..Len(ev) : Cardinality(OpenAfter(ev, n, kind)) <= 1

\* all that was opened has been closed
AllClosedIn(ev) ==
    \A i \in 1..Len(ev) : ev[i].op = "open" => \E j \in (i + 1)..Len(ev) : ev[j] = Closing(ev[i])

\* the descriptor of the reader or writer x, if there is one, was closed by
\* one call of its Close
DescriptorClosedOnce(x) ==
    x # None =>
        /\ ~x.fdOpen
        /\ Cardinality({i \in 1..Len(x.log) : x.log[i].op = "fd.Close"}) = 1

\* C24: Split and Join close what they opened, once: nothing is closed that
\* was not opened or closed twice; Split has at most one part writer open
\* and Join at most one part reader; and when Split or Join has returned,
\* with or without error, the readers and writers it opened are all closed.
C24_EveryOpenHasOneClose ==
    /\ PairedIn(sp.ev) /\ PairedIn(jn.ev)
    /\ OneAtATime(sp.ev, "writer") /\ OneAtATime(sp.ev, "reader")
    /\ OneAtATime(jn.ev, "reader") /\ OneAtATime(jn.ev, "writer")
    /\ sp.pc = "returned" =>
           AllClosedIn(sp.ev) /\ DescriptorClosedOnce(sp.reader) /\ DescriptorClosedOnce(sp.writer)
    /\ jn.pc = "returned" =>
           AllClosedIn(jn.ev) /\ DescriptorClosedOnce(jn.reader) /\ DescriptorClosedOnce(jn.writer)

\* a Split that wrote two parts has returned, and the Join of them has
\* returned the error of a failed write, its part reader and its writer closed
C24_Witness ==
    /\ sp.pc = "returned" /\ Len(sp.ret.parts) = 2 /\ Len(sp.ev) = 6
    /\ jn.pc = "returned" /\ jn.ret # Nil /\ jn.failed = "write"
    /\ jn.ev = <<[op |-> "open", kind |-> "writer", of |-> 0],
                 [op |-> "open", kind |-> "reader", of |-> 1],
                 [op |-> "close", kind |-> "reader", of |-> 1],
                 [op |-> "close", kind |-> "writer", of |-> 0]>>

\* C25: when OpenJsonFile, OpenProtoFile or OpenCsvFile has opened the
\* descriptor and the gzip layer then rejects the content, the call returns
\* an error and has closed the descriptor: after a failed open of Split or
\* Join no descriptor is open without a reader that owns it.
C25_FailedOpenClosesDescriptor ==
    /\ (sp.pc = "returned" /\ sp.reader = None) => (sp.ret.err # Nil /\ ~sp.unowned)
    /\ (jn.pc = "returned" /\ jn.failed = "open") => (jn.ret # Nil /\ ~jn.unowned)

\* the passes of the loop of Split whose read returned a record
SplitBodies == sp.iters - (IF sp.readErr # Nil THEN 1 ELSE 0)

\* the reads the inner loop of Join makes on part number k of the list: one
\* for each record of the part and the one that ends the part
ReadsOfPart(k) == Len(RecordsIn(files.part[sp.ret.parts[k]])) + 1

\* the parts Join has opened so far
PartsBegun == 1..(IF jn.i <= Len(sp.ret.parts) THEN jn.i ELSE Len(sp.ret.parts))

\* C27: Split and Join terminate, for every limit and every pattern of
\* create and write failures, because the passes of their loops are bounded
\* by the records there are to read: every pass of the loop of Split makes
\* one read, the passes whose read returned a record are at most the
\* records of the input and each of them has consumed one record, a read
\* that returns an error ends the loop at once; the inner loop of Join
\* makes, for each part, at most one pass for each record of the part and
\* one for the read that ends it.
C27_LoopsBoundedByRecords ==
    /\ sp.pc # "start" =>
           /\ SplitBodies <= Len(RecordsIn(files.in))
           /\ sp.readErr # Nil => sp.pc \in {"after", "returned"}
           /\ sp.pc \in {"loop", "rotate", "write"} =>
                  SplitBodies + Len(ReadAll(sp.reader, <<>>)) = Len(RecordsIn(files.in))
    /\ jn.pc # "idle" =>
           /\ jn.iters <= SumSeq([k \in PartsBegun |-> ReadsOfPart(k)])
           /\ jn.pc = "copy" => jn.reader.ret = Nil

\* a Split of two records with the least limit has made three passes and
\* returned one part; the Join of it has made three passes and returned
C27_Witness ==
    /\ cfg.limit = MinLimit /\ Len(cfg.recs) = 2 /\ cfg.input = "whole"
    /\ sp.pc = "returned" /\ sp.iters = 3 /\ sp.readErr = EOF
    /\ jn.pc = "returned" /\ jn.iters = 3

\* the plain content of a file of the configuration
PlainOf(bytes) == IF cfg.gz THEN GzDecode(bytes).plain ELSE bytes

RECURSIVE LinesFrom(_, _, _)
\* the lines of the text from byte i on, cur the line begun: each '\n' ends
\* a line, and bytes after the last '\n' are a line of their own
LinesFrom(text, i, cur) ==
    IF i > Len(text) THEN (IF cur = <<>> THEN <<>> ELSE <<cur>>)
    ELSE IF text[i] = NL THEN <<cur>> \o LinesFrom(text, i + 1, <<>>)
    ELSE LinesFrom(text, i + 1, Append(cur, text[i]))

RECURSIVE Terminated(_)
\* the lines, each followed by one '\n'
Terminated(lines) ==
    IF lines = <<>> THEN <<>> ELSE Append(lines[1], NL) \o Terminated(Tail(lines))

RECURSIVE PartsPlain(_)
\* the plain contents of the part files, in list order
PartsPlain(parts) ==
    IF parts = <<>> THEN <<>> ELSE PlainOf(files.part[parts[1]]) \o PartsPlain(Tail(parts))

\* the input is a JSON file that can be read to its end, nothing fails, and
\* Split has returned
JsonSplitDone ==
    /\ cfg.fmt = "json" /\ cfg.fault.kind = "none"
    /\ cfg.input \in {"whole", "open"} \/ (cfg.input = "torn" /\ ~cfg.gz)
    /\ sp.pc = "returned"

\* the last line of the input has no '\n'
InputLeftOpen == PlainOf(files.in) # <<>> /\ PlainOf(files.in)[Len(PlainOf(files.in))] # NL

\* C28: the JSON parts that Split writes and the output that Join writes
\* end every record, the last one too, with exactly one '\n', whether or
\* not the last line of the input had one: every part ends in '\n', the
\* parts together and the output of Join are the lines of the input each
\* followed by one '\n', and for an input whose last line is unterminated
\* the output of Join is the input and one '\n' more.
C28_EveryRecordGetsOneNewline ==
    JsonSplitDone =>
        /\ sp.ret.err = Nil
        /\ \A k \in Range(sp.ret.parts) :
               /\ PlainOf(files.part[k]) # <<>>
               /\ PlainOf(files.part[k]) = Terminated(LinesFrom(PlainOf(files.part[k]), 1, <<>>))
        /\ PartsPlain(sp.ret.parts) = Terminated(LinesFrom(PlainOf(files.in), 1, <<>>))
        /\ jn.pc = "returned" =>
               /\ jn.ret = Nil
               /\ PlainOf(files.out) = Terminated(LinesFrom(PlainOf(files.in), 1, <<>>))
               /\ InputLeftOpen => PlainOf(files.out) = Append(PlainOf(files.in), NL)
               /\ ~InputLeftOpen => PlainOf(files.out) = PlainOf(files.in)

\* an input of two lines, the second without '\n', was split into two parts
\* and joined again
C28_Witness ==
    /\ JsonSplitDone /\ InputLeftOpen /\ cfg.limit = 1
    /\ Len(LinesFrom(PlainOf(files.in), 1, <<>>)) = 2
    /\ Len(sp.ret.parts) = 2
    /\ jn.pc = "returned"
    /\ files.out # Absent

====
